---- MODULE Spec2Model ----
(***************************************************************************)
(* Sales & inventory dashboard: the data-cleaning pipeline (clean_data and *)
(* the page loaders), the derived metrics (net profit, stock alert flag)   *)
(* and the date-range filter of the pages.                                 *)
(*                                                                         *)
(* A table (pandas DataFrame) is a function from the names of its columns  *)
(* to sequences of cells of one length; a cell is a string, a number, a    *)
(* date or one of the missing markers NaN / NaT.                           *)
(***************************************************************************)
EXTENDS Integers, Sequences, FiniteSets, TLC

VARIABLES
    sheet,    \* the raw table the data source returns (every cell a string)
    df,       \* the DataFrame the function under study works on
    first,    \* df as it was after the first run of clean_data
    pc,       \* which step has been applied to df
    page,     \* the dashboard page that ran its loader
    range,    \* the (start, end) of the page's date-range filter, as yyyymmdd
    view,     \* the rows of df (positions) the date-range filter keeps
    sel,      \* the session's selection of each categorical filter of the page
    shown,    \* the rows of df (positions) left after every filter of the page
    out,      \* what the page displayed: metrics, charts, messages
    source,   \* what the data source does when it is read
    cache,    \* the loader results st.cache_data holds, by page
    reads     \* history: what each page's loader returned since the last refresh

vars == <<sheet, df, first, pc, page, range, view, sel, shown, out, source, cache, reads>>
ui == <<page, range, view, sel, shown, out, source, cache, reads>>

----------------------------------------------------------------------------
(* Bounds *)

\* longest raw cell typed into the sheet, in characters
MaxLen == 2
\* largest stock / threshold quantity of the stock-alert tables
MaxStock == 3
\* largest amount of the net-profit tables
MaxAmount == 2
\* how far below and above the forecast threshold the sales histories reach
Slack == 1
\* most digits of the integer part of an amount to display
MaxDigits == 6

----------------------------------------------------------------------------
(* The session before any page ran *)

\* no filter selection, nothing displayed, nothing cached
NoSel == [c \in {} |-> {}]
NoOut == [k \in {} |-> ""]
NoCache == [p \in {} |-> {}]

----------------------------------------------------------------------------
(* Cells *)

Str(s) == [t |-> "str", s |-> s, m |-> 0, e |-> 0]
\* the decimal number m * 10^-e, normalised: e = 0 or m not a multiple of 10
Num(m, e) == [t |-> "num", s |-> <<>>, m |-> m, e |-> e]
NaN == [t |-> "nan", s |-> <<>>, m |-> 0, e |-> 0]
NaT == [t |-> "nat", s |-> <<>>, m |-> 0, e |-> 0]
\* a Timestamp: calendar day d of month mo of year y (m) at time of day hm (e),
\* hours * 100 + minutes, 0 for midnight
DateTime(d, mo, y, hm) ==
    [t |-> "date", s |-> <<>>, m |-> y * 10000 + mo * 100 + d, e |-> hm]
Date(d, mo, y) == DateTime(d, mo, y, 0)

IsStr(c) == c.t = "str"
IsNum(c) == c.t = "num"
IsNA(c) == c.t \in {"nan", "nat"}
DayOf(c) == c.m % 100
MonthOf(c) == (c.m \div 100) % 100

\* characters: ASCII ones stand for themselves
RUPEE == "RUPEE"            \* U+20B9
A_CIRC == "A_CIRC"          \* U+00E2
LOW9_QUOTE == "LOW9_QUOTE"  \* U+201A
SUP_ONE == "SUP_ONE"        \* U+00B9

DigitChars == <<"0", "1", "2", "3", "4", "5", "6", "7", "8", "9">>
IsDigit(c) == \E i \in 1..10 : DigitChars[i] = c
DigitVal(c) == (CHOOSE i \in 1..10 : DigitChars[i] = c) - 1

RECURSIVE Pow10(_)
Pow10(n) == IF n = 0 THEN 1 ELSE 10 * Pow10(n - 1)

RECURSIVE ParseDigits(_)
ParseDigits(s) ==
    IF s = <<>> THEN 0
    ELSE 10 * ParseDigits(SubSeq(s, 1, Len(s) - 1)) + DigitVal(s[Len(s)])

RECURSIVE DigitsOf(_)
DigitsOf(n) ==
    IF n < 10 THEN <<DigitChars[n + 1]>>
    ELSE Append(DigitsOf(n \div 10), DigitChars[(n % 10) + 1])

RECURSIVE Normalise(_, _)
Normalise(m, e) ==
    IF e > 0 /\ m % 10 = 0 THEN Normalise(m \div 10, e - 1) ELSE Num(m, e)

RECURSIVE LStrip(_)
LStrip(s) == IF s # <<>> /\ s[1] = " " THEN LStrip(Tail(s)) ELSE s

RECURSIVE RStrip(_)
RStrip(s) ==
    IF s # <<>> /\ s[Len(s)] = " " THEN RStrip(SubSeq(s, 1, Len(s) - 1)) ELSE s

\* str.strip()
Strip(s) == RStrip(LStrip(s))

\* str.replace(pattern, '') for a pattern that is a set of single characters
RemoveChars(s, set) == SelectSeq(s, LAMBDA c : c \notin set)

AllDigits(s) == \A i \in 1..Len(s) : IsDigit(s[i])

Lower(c) == CASE c = "N" -> "n" [] c = "A" -> "a" [] OTHER -> c
LowerStr(s) == [i \in 1..Len(s) |-> Lower(s[i])]

\* the position of the first ".", one past the end when there is none
DotPos(t) ==
    LET dots == {i \in 1..Len(t) : t[i] = "."}
    IN  IF dots = {} THEN Len(t) + 1 ELSE CHOOSE i \in dots : \A j \in dots : i <= j

\* the number with integer digits ip and fraction digits fp
ParseParts(ip, fp) ==
    IF AllDigits(ip \o fp) /\ Len(ip) + Len(fp) > 0
    THEN Normalise(ParseDigits(ip \o fp), Len(fp))
    ELSE NaN

ParseDecimal(t, dot) ==
    IF LowerStr(t) = <<"n", "a", "n">> THEN NaN
    ELSE ParseParts(SubSeq(t, 1, dot - 1), SubSeq(t, dot + 1, Len(t)))

\* t without its sign
Unsigned(t) == IF t # <<>> /\ t[1] \in {"-", "+"} THEN Tail(t) ELSE t
Negate(c) == IF c.t = "num" THEN [c EXCEPT !.m = 0 - c.m] ELSE c

\* the number written t, whose unsigned part is u
ParseSigned(t, u) ==
    IF t # <<>> /\ t[1] = "-" THEN Negate(ParseDecimal(u, DotPos(u)))
    ELSE ParseDecimal(u, DotPos(u))

ParseStripped(t) == ParseSigned(t, Unsigned(t))

\* pd.to_numeric(..., errors='coerce') of one string: blanks around the number
\* are skipped, "nan" in any case is NaN, what does not parse is NaN
ParseNumber(s) == ParseStripped(Strip(s))

\* pd.to_numeric of one cell: numbers and NaN pass, strings are parsed
ToNumericCell(c) ==
    IF IsStr(c) THEN ParseNumber(c.s) ELSE IF IsNum(c) THEN c ELSE NaN

----------------------------------------------------------------------------
(* Columns *)

NRows(t) == IF DOMAIN t = {} THEN 0 ELSE Len(t[CHOOSE c \in DOMAIN t : TRUE])
\* df[name] = col
SetCol(t, name, col) == [c \in DOMAIN t \cup {name} |-> IF c = name THEN col ELSE t[c]]

\* float64 unless every cell is a whole number (int64)
IsIntCol(col) == \A i \in 1..Len(col) : IsNum(col[i]) /\ col[i].e = 0

RECURSIVE Zeros(_)
Zeros(n) == IF n <= 0 THEN <<>> ELSE <<"0">> \o Zeros(n - 1)

\* str(x) of a number of an int64 (asInt) or float64 column, without its sign
FormatUnsigned(c, asInt) ==
    IF ~IsNum(c) THEN <<"n", "a", "n">>
    ELSE IF asInt THEN DigitsOf(c.m)
    ELSE LET ip == c.m \div Pow10(c.e)
             fp == c.m % Pow10(c.e)
         IN  DigitsOf(ip) \o <<".">> \o
             (IF c.e = 0 THEN <<"0">>
              ELSE Zeros(c.e - Len(DigitsOf(fp))) \o DigitsOf(fp))

FormatNum(c, asInt) ==
    IF IsNum(c) /\ c.m < 0 THEN <<"-">> \o FormatUnsigned(Negate(c), asInt)
    ELSE FormatUnsigned(c, asInt)

\* Series.astype(str)
AsTypeStr(col) ==
    LET asInt == IsIntCol(col)
    IN  [i \in 1..Len(col) |->
            IF IsStr(col[i]) THEN col[i] ELSE Str(FormatNum(col[i], asInt))]

----------------------------------------------------------------------------
(* pd.to_datetime (pandas 2: one format for the column, guessed from its  *)
(* first non-null element; what does not parse becomes NaT).              *)

TwoDigits(n) == <<DigitChars[(n \div 10) + 1], DigitChars[(n % 10) + 1]>>
\* the string "aa/bb/2024"
DateStr(a, b) == TwoDigits(a) \o <<"/">> \o TwoDigits(b) \o <<"/", "2", "0", "2", "4">>

\* the string "aa/bb/2024 hh:mm"
DateTimeStr(a, b, hm) ==
    DateStr(a, b) \o <<" ">> \o TwoDigits(hm \div 100) \o <<":">> \o TwoDigits(hm % 100)

\* the time of day hh * 100 + mm of a suffix " hh:mm", 0 for no suffix, -1 for
\* any other suffix
TimeField(s) ==
    IF s = <<>> THEN 0
    ELSE IF /\ Len(s) = 6
            /\ s[1] = " " /\ s[4] = ":"
            /\ AllDigits(<<s[2], s[3], s[5], s[6]>>)
            /\ ParseDigits(<<s[2], s[3]>>) < 24 /\ DigitVal(s[5]) < 6
         THEN ParseDigits(<<s[2], s[3], s[5], s[6]>>)
         ELSE -1

\* the fields f with the time of day hm and whether one was written
FieldsWithTime(f, hm, timed) == IF hm < 0 THEN <<>> ELSE f \o <<hm, timed>>

\* the fields <<a, b, year, time of day, timed>> of a string "aa/bb/yyyy" or
\* "aa/bb/yyyy hh:mm", <<>> for any other string
DateFields(s) ==
    IF /\ Len(s) >= 10
       /\ s[3] = "/" /\ s[6] = "/"
       /\ AllDigits(SubSeq(s, 1, 2) \o SubSeq(s, 4, 5) \o SubSeq(s, 7, 10))
    THEN FieldsWithTime(<<ParseDigits(SubSeq(s, 1, 2)), ParseDigits(SubSeq(s, 4, 5)),
                          ParseDigits(SubSeq(s, 7, 10))>>,
                        TimeField(SubSeq(s, 11, Len(s))), Len(s) > 10)
    ELSE <<>>

DaysInMonth(mo, y) ==
    IF mo \in {4, 6, 9, 11} THEN 30
    ELSE IF mo # 2 THEN 31
    ELSE IF y % 4 = 0 /\ (y % 100 # 0 \/ y % 400 = 0) THEN 29 ELSE 28

ValidDate(d, mo, y) == mo \in 1..12 /\ d >= 1 /\ d <= DaysInMonth(mo, y)

\* the format guessed for one element with fields f, <<field order, with a
\* time of day>>: month first unless dayfirst is asked for or the first field
\* cannot be a month
GuessFormat(f, dayfirst) ==
    IF f = <<>> THEN <<"none", FALSE>>
    ELSE IF dayfirst
    THEN (IF f[2] \in 1..12 THEN <<"DMY", f[5]>>
          ELSE IF f[1] \in 1..12 THEN <<"MDY", f[5]>> ELSE <<"none", FALSE>>)
    ELSE (IF f[1] \in 1..12 THEN <<"MDY", f[5]>>
          ELSE IF f[2] \in 1..12 THEN <<"DMY", f[5]>> ELSE <<"none", FALSE>>)

MakeDate(d, mo, y, hm) == IF ValidDate(d, mo, y) THEN DateTime(d, mo, y, hm) ELSE NaT

\* the format is matched exactly: a string with a time of day does not match a
\* format without one, nor the reverse
ParseDateWith(fmt, f) ==
    IF f = <<>> \/ fmt[1] = "none" \/ fmt[2] # f[5] THEN NaT
    ELSE IF fmt[1] = "MDY" THEN MakeDate(f[2], f[1], f[3], f[4])
    ELSE MakeDate(f[1], f[2], f[3], f[4])

\* empty strings and the NaN strings are skipped when the format is guessed
IsNullStr(c) == ~IsStr(c) \/ c.s = <<>> \/ LowerStr(c.s) = <<"n", "a", "n">>

IsDatetimeCol(col) == \A i \in 1..Len(col) : col[i].t \in {"date", "nat"}

\* the format of the column: the one guessed from its first non-null element
ColumnFormat(col, fields, dayfirst) ==
    LET nn == {i \in 1..Len(col) : ~IsNullStr(col[i])}
    IN  IF nn = {} THEN <<"none", FALSE>>
        ELSE GuessFormat(fields[CHOOSE i \in nn : \A j \in nn : i <= j], dayfirst)

\* each element parsed with the column's format, or on its own when no format
\* could be guessed
ParseColumn(col, fields, fmt, dayfirst) ==
    [i \in 1..Len(col) |->
        IF ~IsStr(col[i]) THEN (IF col[i].t = "date" THEN col[i] ELSE NaT)
        ELSE ParseDateWith(IF fmt[1] = "none" THEN GuessFormat(fields[i], dayfirst) ELSE fmt,
                           fields[i])]

ParseFields(col, fields, dayfirst) ==
    ParseColumn(col, fields, ColumnFormat(col, fields, dayfirst), dayfirst)

ToDatetime(col, dayfirst) ==
    IF IsDatetimeCol(col) THEN col
    ELSE ParseFields(col, [i \in 1..Len(col) |->
                               IF IsStr(col[i]) THEN DateFields(col[i].s) ELSE <<>>],
                     dayfirst)

----------------------------------------------------------------------------
(* scripts/data_analysis.py: clean_data *)

CurrencyCols ==
    {"Total Sale", "Total Cost", "Final Sale", "Stock Value (Selling Price)",
     "Stock Value Cost", "Net Profit", "Revenue Lost Due to Discount",
     "Cost Price", "Effective Selling Price"}

PercentCols ==
    {"Profit per unit Margin (%)", "Discount %", "Profit Margin % (After Discount)",
     "Profit %", "Cancellation Rate", "Order Fulfillment Rate",
     "Supplier Fulfillment Ratio"}

NumericCols ==
    {"Year", "Quantity Sold", "Unit Price", "Profit per Unit",
     "Profit per Unit (After Discount)", "Stock Left", "Days of Inventory",
     "Average Inventory", "Inventory Turnover", "Average Daily Sale",
     "Avg. 30 Days order"}

\* the character class of the regular expression r'[...]' as the file holds it
CurrencyPattern == {A_CIRC, LOW9_QUOTE, SUP_ONE, ","}

ToNumeric(col) == [i \in 1..Len(col) |-> ToNumericCell(col[i])]

CleanCurrencyCell(c) == ToNumericCell(Str(RemoveChars(c.s, CurrencyPattern)))
CleanCurrencyCol(col) == [i \in 1..Len(col) |-> CleanCurrencyCell(AsTypeStr(col)[i])]

CleanPercentCell(c) == ToNumericCell(Str(Strip(RemoveChars(c.s, {"%"}))))
CleanPercentCol(col) == [i \in 1..Len(col) |-> CleanPercentCell(AsTypeStr(col)[i])]

\* the dates turned back into text, df['Date'].dt.strftime('%d/%m/%Y')
StrftimeDayFirst(c) ==
    IF c.t = "date" THEN Str(DateStr(DayOf(c), MonthOf(c))) ELSE NaN
CleanDateColAsText(col) ==
    [i \in 1..Len(col) |-> StrftimeDayFirst(ToDatetime(col, FALSE)[i])]

CleanDateCol(col) == ToDatetime(col, FALSE)

clean_data(t) ==
    [c \in DOMAIN t |->
        IF c \in CurrencyCols THEN CleanCurrencyCol(t[c])
        ELSE IF c \in PercentCols THEN CleanPercentCol(t[c])
        ELSE IF c \in NumericCols THEN ToNumeric(t[c])
        ELSE IF c = "Date" THEN CleanDateCol(t[c])
        ELSE t[c]]

----------------------------------------------------------------------------
(* The raw cells a sheet may hold *)

StringsUpTo(A, n) == UNION {[1..k -> A] : k \in 0..n}

DateFieldValues == {1, 2, 13}
\* the time of day of the cells that carry one: 14:30
TimeOfDay == 1430
RowCounts == {1, 2}

CurrencySamples ==
    {<<RUPEE, " ", "1", ",", "0", "0", "0">>, <<RUPEE, "6", "0", "0">>,
     <<A_CIRC, LOW9_QUOTE, SUP_ONE, "1", ",", "0", "0", "0">>,
     <<"1", ",", "5", "0", "0", ".", "5">>, <<"-", "5">>, <<"-", RUPEE, "5">>}

RawCells(name) ==
    IF name \in CurrencyCols
    THEN {Str(s) : s \in StringsUpTo({RUPEE, ",", " ", "1", "a"}, MaxLen) \cup CurrencySamples}
    ELSE IF name \in PercentCols
    THEN {Str(s) : s \in StringsUpTo({"%", ".", " ", "5", "a"}, MaxLen)
                         \cup {<<"1", "2", ".", "5", "%">>}}
    ELSE IF name \in NumericCols
    THEN {Str(s) : s \in StringsUpTo({"1", "0", ".", " ", "a"}, MaxLen)
                         \cup {<<"n", "a", "n">>}}
    ELSE IF name = "Date"
    THEN {Str(DateStr(a, b)) : a, b \in DateFieldValues}
         \cup {Str(DateTimeStr(a, 2, TimeOfDay)) : a \in {1, 13}}
         \cup {Str(<<>>), Str(<<"a", "b", "c">>)}
    ELSE {Str(<<>>), Str(<<"n", "a", "n">>), Str(<<"N", "a", "N">>),
          Str(<<"N", "o", "n", "e">>), Str(<<"N", "/", "A">>), Str(<<"W">>)}

----------------------------------------------------------------------------
(* Normalisation applied once and twice to a raw table *)

CleanColumns == {"Final Sale", "Discount %", "Quantity Sold", "Date", "Product"}

InitClean ==
    /\ \E name \in CleanColumns : \E n \in RowCounts :
       \E col \in [1..n -> RawCells(name)] :
          sheet = [c \in {name} |-> col]
    /\ df = sheet
    /\ first = sheet
    /\ pc = "raw"
    /\ page = "none" /\ range = <<0, 0>> /\ view = {}
    /\ sel = NoSel /\ shown = {} /\ out = NoOut /\ source = "ok" /\ cache = NoCache /\ reads = NoCache

\* cleaned_df = clean_data(raw_df)
CleanOnce ==
    /\ pc = "raw"
    /\ df' = clean_data(df)
    /\ first' = clean_data(df)
    /\ pc' = "clean1"
    /\ UNCHANGED <<sheet, ui>>

\* clean_data(clean_data(raw_df))
CleanTwice ==
    /\ pc = "clean1"
    /\ df' = clean_data(df)
    /\ pc' = "clean2"
    /\ UNCHANGED <<sheet, first, ui>>

NextClean == CleanOnce \/ CleanTwice

SpecClean == InitClean /\ [][NextClean]_vars

----------------------------------------------------------------------------
(* Arithmetic and comparisons of number cells; a comparison with NaN is   *)
(* false, as in numpy                                                     *)

NumLE(a, b) == IsNum(a) /\ IsNum(b) /\ a.m * Pow10(b.e) <= b.m * Pow10(a.e)
NumGT(a, b) == IsNum(a) /\ IsNum(b) /\ a.m * Pow10(b.e) > b.m * Pow10(a.e)
NumMul(a, b) == IF IsNum(a) /\ IsNum(b) THEN Normalise(a.m * b.m, a.e + b.e) ELSE NaN
NumAdd(a, b) ==
    IF IsNum(a) /\ IsNum(b)
    THEN Normalise(a.m * Pow10(b.e) + b.m * Pow10(a.e), a.e + b.e)
    ELSE NaN
NumSub(a, b) ==
    IF IsNum(a) /\ IsNum(b)
    THEN Normalise(a.m * Pow10(b.e) - b.m * Pow10(a.e), a.e + b.e)
    ELSE NaN
\* Series.fillna(0)
FillNa0(c) == IF IsNum(c) THEN c ELSE Num(0, 0)

\* a categorical value that no character operation looks into
Word(w) == Str(<<w>>)

----------------------------------------------------------------------------
(* pages/02_Inventory_Analysis.py: derive_stock_alert_flag *)

StockCols == <<"Stock Left", "Reorder Level", "Max Stock Level">>

FlagReorder == Word("Reorder")
FlagOptimal == Word("Optimal")
FlagSurplus == Word("Surplus")
FlagSufficient == Word("Sufficient")
FlagUnknown == Word("Unknown")
FlagMissingThreshold == Word("N/A (Missing Threshold Data)")
FlagNeedsThresholds == Word("N/A (Needs Thresholds)")
FlagMissingStockThreshold == Word("N/A (Missing Stock/Threshold Data)")
FlagMissingStock == Word("N/A (Missing Stock Data)")

\* the first tier with the Reorder boundary left out (< for <=)
SelectThreeTierStrict(sl, rl, mx) ==
    IF NumGT(rl, sl) THEN FlagReorder
    ELSE IF NumGT(sl, rl) /\ NumLE(sl, mx) THEN FlagOptimal
    ELSE IF NumGT(sl, mx) THEN FlagSurplus
    ELSE FlagUnknown

\* np.select over the three conditions of the first tier, first match wins
SelectThreeTier(sl, rl, mx) ==
    IF NumLE(sl, rl) THEN FlagReorder
    ELSE IF NumGT(sl, rl) /\ NumLE(sl, mx) THEN FlagOptimal
    ELSE IF NumGT(sl, mx) THEN FlagSurplus
    ELSE FlagUnknown

\* np.select over the two conditions of the second tier
SelectTwoTier(sl, rl) ==
    IF NumLE(sl, rl) THEN FlagReorder
    ELSE IF NumGT(sl, rl) THEN FlagSufficient
    ELSE FlagUnknown

\* df.loc[df['Stock Left'].isna(), 'Stock Alert Flag'] = 'N/A (Missing Stock Data)'
MarkMissingStock(sl, flag) == IF IsNum(sl) THEN flag ELSE FlagMissingStock

\* the tiers after the loop over the three columns
AlertTiers(t) ==
    LET n == NRows(t)
        all(f) == [i \in 1..n |-> f]
    IN  IF \A k \in 1..3 : StockCols[k] \in DOMAIN t
        THEN SetCol(t, "Stock Alert Flag",
                 [i \in 1..n |->
                     MarkMissingStock(t["Stock Left"][i],
                         SelectThreeTier(t["Stock Left"][i], t["Reorder Level"][i],
                                         t["Max Stock Level"][i]))])
        ELSE IF "Stock Left" \in DOMAIN t /\ "Reorder Level" \in DOMAIN t
        THEN SetCol(t, "Stock Alert Flag",
                 [i \in 1..n |->
                     MarkMissingStock(t["Stock Left"][i],
                         SelectTwoTier(t["Stock Left"][i], t["Reorder Level"][i]))])
        ELSE IF "Stock Left" \in DOMAIN t
        THEN SetCol(t, "Stock Alert Flag", all(FlagNeedsThresholds))
        ELSE SetCol(t, "Stock Alert Flag", all(FlagMissingStockThreshold))

\* the loop makes each of the three columns numeric in turn and, at the first
\* one the table lacks, flags every row and returns
derive_stock_alert_flag(t) ==
    LET absent == {k \in 1..3 : StockCols[k] \notin DOMAIN t}
        stop == IF absent = {} THEN 4 ELSE CHOOSE k \in absent : \A j \in absent : k <= j
        t1 == [c \in DOMAIN t |->
                 IF \E k \in 1..(stop - 1) : StockCols[k] = c THEN ToNumeric(t[c]) ELSE t[c]]
    IN  IF absent # {}
        THEN SetCol(t1, "Stock Alert Flag", [i \in 1..NRows(t) |-> FlagMissingThreshold])
        ELSE AlertTiers(t1)

\* quantities as the inventory loader hands them over: numbers or NaN
StockCells == {Num(n, 0) : n \in 0..MaxStock} \cup {NaN}

\* the table with the given stock columns and a Product column
StockTable(n, cols, f) ==
    [c \in cols \cup {"Product"} |->
        IF c = "Product" THEN [i \in 1..n |-> Word("Widget")] ELSE f[c]]

InitStock ==
    /\ \E n \in RowCounts :
       \E cols \in SUBSET {"Stock Left", "Reorder Level", "Max Stock Level"} :
       \E f \in [cols -> [1..n -> StockCells]] :
          sheet = StockTable(n, cols, f)
    /\ df = sheet
    /\ first = sheet
    /\ pc = "raw"
    /\ page = "none" /\ range = <<0, 0>> /\ view = {}
    /\ sel = NoSel /\ shown = {} /\ out = NoOut /\ source = "ok" /\ cache = NoCache /\ reads = NoCache

DeriveStockAlertFlag ==
    /\ pc = "raw"
    /\ df' = derive_stock_alert_flag(df)
    /\ pc' = "flagged"
    /\ UNCHANGED <<sheet, first, ui>>

NextStock == DeriveStockAlertFlag

SpecStock == InitStock /\ [][NextStock]_vars

----------------------------------------------------------------------------
(* The page loaders (each behind @st.cache_data)                          *)

\* pd.DataFrame(): no columns, no rows
EmptyFrame == [c \in {} |-> <<>>]
\* DataFrame.empty
IsEmpty(t) == DOMAIN t = {} \/ NRows(t) = 0

\* the row labels pandas keeps through dropna, sort_values and boolean masks
IndexCol == "(index)"
\* load_data_from_gsheet: pd.DataFrame(rows, columns=headers)
load_data_from_gsheet(raw) ==
    IF DOMAIN raw = {} THEN EmptyFrame
    ELSE SetCol(raw, IndexCol, [i \in 1..NRows(raw) |-> Num(i - 1, 0)])

RECURSIVE SelectIdx(_, _)
SelectIdx(col, keep) ==
    IF col = <<>> THEN <<>>
    ELSE LET r == SelectIdx(SubSeq(col, 1, Len(col) - 1), keep)
         IN  IF Len(col) \in keep THEN Append(r, col[Len(col)]) ELSE r

\* df[mask]
SelectRows(t, keep) == [c \in DOMAIN t |-> SelectIdx(t[c], keep)]
\* df.dropna(subset=[name])
DropNa(t, name) == SelectRows(t, {i \in 1..NRows(t) : ~IsNA(t[name][i])})

\* for col in cols: if col in df.columns: df[col] = pd.to_numeric(df[col], errors='coerce')
ToNumericCols(t, cols) == [c \in DOMAIN t |-> IF c \in cols THEN ToNumeric(t[c]) ELSE t[c]]

NA == <<"N", "/", "A">>
NullTokens3 == {<<"n", "a", "n">>, <<"N", "o", "n", "e">>, <<"N", "a", "N">>}
NullTokens4 == NullTokens3 \cup {<<>>}

\* Series.replace(tokens, 'N/A'): whole values only
ReplaceTokens(col, tokens) ==
    [i \in 1..Len(col) |-> IF IsStr(col[i]) /\ col[i].s \in tokens THEN Str(NA) ELSE col[i]]

\* astype(str).fillna('N/A') then replace(tokens, 'N/A') on each listed column
NormaliseCategoricals(t, cols, tokens) ==
    [c \in DOMAIN t |-> IF c \in cols THEN ReplaceTokens(AsTypeStr(t[c]), tokens) ELSE t[c]]

\* astype(str).fillna('N/A') alone
CastCategoricals(t, cols) ==
    [c \in DOMAIN t |-> IF c \in cols THEN AsTypeStr(t[c]) ELSE t[c]]

\* the Date block of a loader: the column is parsed (day first or not) only
\* if clean_data left it other than datetime; rows without a date are
\* dropped inside that branch ("in"), after it ("after") or not at all
DateBlock(t, dayfirst, drop) ==
    IF "Date" \notin DOMAIN t THEN t
    ELSE IF ~IsDatetimeCol(t["Date"])
         THEN LET t1 == SetCol(t, "Date", ToDatetime(t["Date"], dayfirst))
              IN  IF drop \in {"in", "after"} THEN DropNa(t1, "Date") ELSE t1
         ELSE IF drop = "after" THEN DropNa(t, "Date") ELSE t

PPU == "Profit per Unit (After Discount)"
QTY == "Quantity Sold"
FS == "Final Sale"
TC == "Total Cost"
RLD == "Revenue Lost Due to Discount"
NetProfitCol == "Calculated Net Profit per Transaction"

\* the net profit with the discount term of the fallback forgotten
AddNetProfitNoDiscount(t) ==
    LET n == NRows(t)
    IN  IF {PPU, QTY} \subseteq DOMAIN t
        THEN SetCol(t, NetProfitCol,
                 [i \in 1..n |-> NumMul(FillNa0(t[PPU][i]), FillNa0(t[QTY][i]))])
        ELSE IF {FS, TC} \subseteq DOMAIN t
        THEN SetCol(t, NetProfitCol,
                 [i \in 1..n |-> NumSub(FillNa0(t[FS][i]), FillNa0(t[TC][i]))])
        ELSE t

\* 'Calculated Net Profit per Transaction'
AddNetProfit(t) ==
    LET n == NRows(t)
        base == [i \in 1..n |-> NumSub(FillNa0(t[FS][i]), FillNa0(t[TC][i]))]
    IN  IF {PPU, QTY} \subseteq DOMAIN t
        THEN SetCol(t, NetProfitCol,
                 [i \in 1..n |-> NumMul(FillNa0(t[PPU][i]), FillNa0(t[QTY][i]))])
        ELSE IF {FS, TC} \subseteq DOMAIN t
        THEN IF RLD \in DOMAIN t
             THEN SetCol(t, NetProfitCol,
                      [i \in 1..n |-> NumSub(base[i], FillNa0(t[RLD][i]))])
             ELSE SetCol(t, NetProfitCol, base)
        ELSE t

\* df['Invoice ID'] = df['Invoice ID'].astype(str)
CastInvoiceId(t) == CastCategoricals(t, {"Invoice ID"})

get_sales_overview_data(raw) ==
    LET raw_df == load_data_from_gsheet(raw)
    IN  IF IsEmpty(raw_df) THEN EmptyFrame
        ELSE LET t1 == DateBlock(clean_data(raw_df), FALSE, "in")
                 t2 == ToNumericCols(t1, {FS, TC, RLD, PPU, QTY,
                           "Profit Margin % (After Discount)", "Discount %", "Unit Price"})
             IN  AddNetProfit(CastInvoiceId(t2))

\* 'Stock Value Cost' and 'Stock Value (Selling Price)' when the source lacks them
AddStockValues(t) ==
    LET n == NRows(t)
        prod(a, b) == [i \in 1..n |-> NumMul(FillNa0(t[a][i]), FillNa0(t[b][i]))]
        t1 == IF "Stock Value Cost" \notin DOMAIN t /\ {"Cost Price", "Stock Left"} \subseteq DOMAIN t
              THEN SetCol(t, "Stock Value Cost", prod("Cost Price", "Stock Left")) ELSE t
    IN  IF "Stock Value (Selling Price)" \notin DOMAIN t1
           /\ {"Unit Price", "Stock Left"} \subseteq DOMAIN t1
        THEN SetCol(t1, "Stock Value (Selling Price)", prod("Unit Price", "Stock Left"))
        ELSE t1

\* Series.nunique()
NUnique(col) == Cardinality({col[i] : i \in {j \in 1..Len(col) : ~IsNA(col[j])}})

get_inventory_analysis_data(raw) ==
    LET raw_df == load_data_from_gsheet(raw)
    IN  IF IsEmpty(raw_df) THEN EmptyFrame
        ELSE LET t1 == DateBlock(clean_data(raw_df), TRUE, "in")
                 t2 == ToNumericCols(t1,
                           {"Stock Left", "Days of Inventory", "Average Inventory",
                            "Stock Value (Selling Price)", "Stock Value Cost",
                            "Inventory Turnover", "Quantity Sold", "Cost Price",
                            "Unit Price", "Final Sale", "Total Cost", "Reorder Level",
                            "Max Stock Level"})
                 t3 == NormaliseCategoricals(t2,
                           {"Product", "Category", "Movement Label", "Supplier", "Region",
                            "Weekend/Weekday", "Order Status", "Customer Name",
                            "Stock Alert Flag"}, NullTokens4)
                 t4 == CastInvoiceId(AddStockValues(t3))
             IN  IF "Stock Alert Flag" \notin DOMAIN t4 \/ NUnique(t4["Stock Alert Flag"]) <= 1
                 THEN derive_stock_alert_flag(t4)
                 ELSE t4

get_cs_page_data(raw) ==
    LET raw_df == load_data_from_gsheet(raw)
    IN  IF IsEmpty(raw_df) THEN EmptyFrame
        ELSE LET t1 == DateBlock(clean_data(raw_df), TRUE, "after")
                 t2 == ToNumericCols(t1, {"Final Sale", "Supplier Fulfillment Ratio"})
             IN  NormaliseCategoricals(t2,
                     {"Customer Name", "Region", "Payment Method", "Customer Flag",
                      "Weekend/Weekday", "Product", "Supplier"}, NullTokens3)

\* the rows in ascending order of the Date column (NaT last), ties in the
\* order they had
RECURSIVE SortedIdx(_, _)
SortedIdx(col, left) ==
    IF left = {} THEN <<>>
    ELSE LET day(i) == IF col[i].t = "date" THEN col[i].m ELSE 99999999
             before(i, j) ==
                \/ day(i) < day(j)
                \/ day(i) = day(j) /\ col[i].e < col[j].e
                \/ day(i) = day(j) /\ col[i].e = col[j].e /\ i <= j
             i0 == CHOOSE i \in left : \A j \in left : before(i, j)
         IN  <<i0>> \o SortedIdx(col, left \ {i0})

\* df.sort_values(by=name)
SortValues(t, name) ==
    LET order == SortedIdx(t[name], 1..NRows(t))
    IN  [c \in DOMAIN t |-> [k \in 1..NRows(t) |-> t[c][order[k]]]]

get_base_data_for_forecast(raw) ==
    LET raw_df == load_data_from_gsheet(raw)
    IN  IF IsEmpty(raw_df) THEN EmptyFrame
        ELSE LET t0 == clean_data(raw_df)
             IN  IF ~({"Date", "Final Sale", "Product", "Category"} \subseteq DOMAIN t0)
                 THEN EmptyFrame
                 ELSE LET t1 == DateBlock(t0, FALSE, "after")
                          t2 == DropNa(ToNumericCols(t1, {"Final Sale"}), "Final Sale")
                      IN  SortValues(CastCategoricals(t2, {"Product", "Category"}), "Date")

get_order_lookup_data(raw) ==
    LET raw_df == load_data_from_gsheet(raw)
    IN  IF IsEmpty(raw_df) THEN EmptyFrame
        ELSE LET t1 == DateBlock(clean_data(raw_df), FALSE, "none")
                 t2 == NormaliseCategoricals(t1, {"Invoice ID"}, NullTokens3)
                 t3 == ToNumericCols(t2, {"Quantity Sold", "Unit Price", "Total Sale",
                           "Total Cost", "Profit per Unit", "Discount %", "Final Sale",
                           "Profit per Unit (After Discount)"})
             IN  NormaliseCategoricals(t3,
                     {"Product", "Category", "Customer Name", "Payment Method", "Region",
                      "Supplier", "Order Status"}, NullTokens3)

----------------------------------------------------------------------------
(* The dashboard: a sheet, one run of a page's loader, one run of the     *)
(* page's filter step                                                     *)

CategoricalCols ==
    {"Product", "Category", "Customer Name", "Supplier", "Region", "Payment Method",
     "Order Status", "Weekend/Weekday", "Customer Flag"}

ProfitCols == {PPU, QTY, FS, TC, RLD}
AmountCells == {Str(DigitsOf(n)) : n \in 0..MaxAmount} \cup {Str(<<>>)}

\* sheets with the four columns the forecast page requires; the dates vary
DateSheet(dates) ==
    [c \in {"Date", "Final Sale", "Product", "Category"} |->
        IF c = "Date" THEN dates
        ELSE [i \in 1..Len(dates) |->
                 IF c = "Final Sale" THEN Str(<<"1", ",", "0", "0", "0">>)
                 ELSE IF c = "Product" THEN Word("Widget") ELSE Word("Tools")]]

\* one-row sheets with a date, a sale and one categorical column that varies
CategoricalSheet(name, cell) ==
    [c \in {"Date", "Final Sale", "Product", "Category", name} |->
        IF c = name THEN <<cell>>
        ELSE IF c = "Date" THEN <<Str(DateStr(13, 2))>>
        ELSE IF c = "Final Sale" THEN <<Str(<<"5">>)>>
        ELSE <<Word("Widget")>>]

\* one-row sheets with some of the columns net profit is computed from
ProfitSheet(cols, f) ==
    [c \in cols \cup {"Product"} |-> IF c = "Product" THEN <<Word("Widget")>> ELSE <<f[c]>>]

\* two-row sheets with some of the columns the categorical filters work on;
\* one of the values a column can hold is the word "All"
FilteredCols == {"Product", "Customer Name", "Region"}
FilterWords == {Word("All"), Word("Widget")}
FilterSheet(cols, f) ==
    [c \in cols \cup {"Date", "Final Sale"} |->
        IF c = "Date" THEN <<Str(DateStr(13, 2)), Str(DateStr(13, 2))>>
        ELSE IF c = "Final Sale" THEN <<Str(<<"5">>), Str(<<"5">>)>>
        ELSE f[c]]

\* two-row sheets with the columns the indicators and the monthly charts of
\* pages 01 and 02 are computed from: the two sales are in one day, in two
\* days of one month or in two months; a sale can be a refund (negative)
InvoiceCol == "Invoice ID"
MarginCol == "Profit Margin % (After Discount)"
SaleCells == {Str(<<"0">>), Str(<<"5">>), Str(<<"-", "5">>), Str(<<>>)}
InvoiceCells == {Word("A"), Word("B")}
SecondDates == {Str(DateStr(13, 1)), Str(DateStr(14, 1)), Str(DateStr(13, 2))}
KpiSheet(second, sales, cols, ids) ==
    [c \in cols \cup {"Date", FS, TC, MarginCol, "Stock Value Cost", "Inventory Turnover"} |->
        IF c = "Date" THEN <<Str(DateStr(13, 1)), second>>
        ELSE IF c = FS THEN sales
        ELSE IF c = InvoiceCol THEN ids
        ELSE <<Str(<<"1">>), Str(<<"1">>)>>]

\* what sheet.get_all_values() does: "ok" returns the sheet, "fails" raises
\* (no credentials, no network, no such spreadsheet), "empty" returns no
\* row at all
SourceStates == {"ok", "fails", "empty"}

\* a sheet with its header row and no order
HeaderOnlySheet == [c \in {"Date", "Final Sale"} |-> <<>>]

Init ==
    /\ \/ \E n \in RowCounts : \E dates \in [1..n -> RawCells("Date")] :
             sheet = DateSheet(dates)
       \/ \E cols \in SUBSET FilteredCols : \E f \in [cols -> [1..2 -> FilterWords]] :
             sheet = FilterSheet(cols, f)
       \/ \E second \in SecondDates : \E sales \in [1..2 -> SaleCells] :
             \E cols \in SUBSET {InvoiceCol} : \E ids \in [1..2 -> InvoiceCells] :
                sheet = KpiSheet(second, sales, cols, ids)
       \/ \E name \in CategoricalCols : \E cell \in RawCells(name) :
             sheet = CategoricalSheet(name, cell)
       \/ \E cols \in SUBSET ProfitCols : \E f \in [cols -> AmountCells] :
             sheet = ProfitSheet(cols, f)
       \/ sheet = HeaderOnlySheet
       \/ sheet = EmptyFrame
    /\ source \in (IF sheet = EmptyFrame THEN SourceStates \ {"ok"} ELSE {"ok"})
    /\ df = EmptyFrame
    /\ first = EmptyFrame
    /\ pc = "raw"
    /\ page = "none" /\ range = <<0, 0>> /\ view = {}
    /\ sel = NoSel /\ shown = {} /\ out = NoOut /\ cache = NoCache /\ reads = NoCache

\* whether load_data_from_gsheet raises: nothing catches the exception of a
\* failed fetch; without any row it is headers = data[0] that raises when
\* get_all_values() returns [], and an empty DataFrame that results when it
\* returns [[]]
FetchRaises(src) ==
    IF src = "ok" THEN {FALSE} ELSE IF src = "fails" THEN {TRUE} ELSE BOOLEAN

\* one call of the loader of page p, which returns t on a sheet that was read
Load(p, t) ==
    /\ pc = "raw"
    /\ page' = p
    /\ \E raised \in FetchRaises(source) :
          IF raised THEN df' = df /\ pc' = "raised"
          ELSE df' = (IF source = "ok" THEN t ELSE EmptyFrame) /\ pc' = "loaded"
    /\ UNCHANGED <<sheet, first, range, view, sel, shown, out, source, cache, reads>>

LoadSalesOverview == Load("01", get_sales_overview_data(sheet))
LoadInventoryAnalysis == Load("02", get_inventory_analysis_data(sheet))
LoadCustomerSupplier == Load("03", get_cs_page_data(sheet))
LoadSalesForecast == Load("04", get_base_data_for_forecast(sheet))
LoadOrderLookup == Load("06", get_order_lookup_data(sheet))

\* (df['Date'] >= pd.to_datetime(start_date)) & (df['Date'] <= pd.to_datetime(end_date)):
\* the two dates of the widget become Timestamps at midnight
InDateRange(c, start, end) ==
    /\ c.t = "date"
    /\ (c.m > start \/ (c.m = start /\ c.e >= 0))
    /\ (c.m < end \/ (c.m = end /\ c.e <= 0))

\* the calendar days the table holds: the widget offers min .. max of them
DataDays(t) ==
    IF "Date" \notin DOMAIN t THEN {}
    ELSE {t["Date"][i].m : i \in {j \in 1..NRows(t) : t["Date"][j].t = "date"}}

\* (date.today() - timedelta(days=30), date.today()) when there is no Date column
DefaultRange == <<20240131, 20240301>>

\* the range the date widget starts from: min and max of the data's days
FullRange(t) ==
    LET days == DataDays(t)
    IN  <<CHOOSE d \in days : \A x \in days : d <= x,
          CHOOSE d \in days : \A x \in days : d >= x>>

\* the ranges the user can hold: start <= end within the data's days
Ranges(t) ==
    IF "Date" \notin DOMAIN t THEN {DefaultRange}
    ELSE {r \in DataDays(t) \X DataDays(t) : r[1] <= r[2]}

\* the rows the date mask keeps; every row when there is no Date column
DateRows(t, r) ==
    IF "Date" \in DOMAIN t
    THEN {i \in 1..NRows(t) : InDateRange(t["Date"][i], r[1], r[2])}
    ELSE 1..NRows(t)

\* the columns the categorical filters of each page work on
SalesOverviewFilters == {"Weekend/Weekday", "Product", "Category", "Customer Name", "Supplier"}
InventoryFilters == {"Product", "Category", "Customer Name", "Stock Alert Flag"}
CustomerSupplierFilters == {"Region", "Customer Flag", "Weekend/Weekday"}
\* the session key of the customer clicked in the chart of page 03
ClickedCustomer == "cs_clicked_customer_filter_val"
FilterCols(p) ==
    IF p = "01" THEN SalesOverviewFilters
    ELSE IF p = "02" THEN InventoryFilters
    ELSE CustomerSupplierFilters \cup {ClickedCustomer}

\* the entry "All" the widgets of pages 02 and 03 put before the data's values
ALL == Word("All")
\* Python's None
None == [t |-> "none", s |-> <<>>, m |-> 0, e |-> 0]
\* what the session holds for a filter the user never touched
DefaultChoice(p, col) ==
    IF p = "01" THEN {}
    ELSE IF p = "02" THEN {ALL}
    ELSE IF col = ClickedCustomer THEN None ELSE ALL

\* sorted(df[col].dropna().unique()), [] without the column
Options(t, col) ==
    IF col \in DOMAIN t
    THEN {t[col][i] : i \in {j \in 1..NRows(t) : ~IsNA(t[col][j])}}
    ELSE {}

\* a selection left in the session by an earlier table, which a widget that
\* is not drawn cannot change
StaleSelections == {{}, {Word("Widget")}}

\* what the session can hold for the filter on col after the widgets ran:
\* page 01 draws a multiselect of the data's values only when there are any,
\* page 02 a multiselect of "All" and the data's values, page 03 a selectbox
\* of "All" and the data's values (the flags only when there are two)
Choices(p, t, col) ==
    IF p = "01"
    THEN (IF Options(t, col) # {} THEN SUBSET Options(t, col) ELSE StaleSelections)
    ELSE IF p = "02" THEN SUBSET ({ALL} \cup Options(t, col))
    ELSE IF col = ClickedCustomer THEN {None, Word("Widget")}
    ELSE IF col = "Customer Flag" /\ col \in DOMAIN t /\ NUnique(t[col]) <= 1 THEN {ALL}
    ELSE {ALL} \cup Options(t, col)

\* the selections of a run in which the user changed at most one filter
Selections(p, t) ==
    UNION {{[x \in FilterCols(p) |-> IF x = col THEN c ELSE DefaultChoice(p, x)] :
                c \in Choices(p, t, col)} : col \in FilterCols(p)}

\* row i of t passes the categorical filters of page p under the selection s
\* the isin filters of page 01 without their `'Col' in df_filtered.columns`
PassSalesOverviewUnguarded(t, s, i) ==
    \A col \in SalesOverviewFilters :
        s[col] # {} => (col \in DOMAIN t /\ t[col][i] \in s[col])

PassSalesOverview(t, s, i) ==
    \A col \in SalesOverviewFilters :
        (s[col] # {} /\ col \in DOMAIN t) => t[col][i] \in s[col]

PassInventoryAnalysis(t, s, i) ==
    \A col \in InventoryFilters :
        (col \in DOMAIN t /\ s[col] # {} /\ ALL \notin s[col]) => t[col][i] \in s[col]

PassCustomerSupplier(t, s, i) ==
    /\ \A col \in CustomerSupplierFilters :
           (s[col] # ALL /\ col \in DOMAIN t) => t[col][i] = s[col]
    /\ (s[ClickedCustomer] # None /\ "Customer Name" \in DOMAIN t)
           => t["Customer Name"][i] = s[ClickedCustomer]

Pass(p, t, s, i) ==
    IF p = "01" THEN PassSalesOverview(t, s, i)
    ELSE IF p = "02" THEN PassInventoryAnalysis(t, s, i)
    ELSE PassCustomerSupplier(t, s, i)

\* one run of the filter step of page p on the loaded table: the page stops
\* on an empty table; the user holds a date range within the data's days and
\* has changed either the range or one categorical filter
Filter(p) ==
    /\ pc = "loaded"
    /\ page = p
    /\ ~IsEmpty(df)
    /\ \E r \in Ranges(df) : \E s \in Selections(p, df) :
          /\ r = (IF "Date" \in DOMAIN df THEN FullRange(df) ELSE DefaultRange)
             \/ \A col \in FilterCols(p) : s[col] = DefaultChoice(p, col)
          /\ range' = r
          /\ sel' = s
          /\ view' = DateRows(df, r)
          /\ shown' = {i \in DateRows(df, r) : Pass(p, df, s, i)}
    /\ pc' = "filtered"
    /\ UNCHANGED <<sheet, df, first, page, out, source, cache, reads>>

FilterSalesOverview == Filter("01")
FilterInventoryAnalysis == Filter("02")
FilterCustomerSupplier == Filter("03")

----------------------------------------------------------------------------
(* The indicators and charts the pages draw from the filtered rows *)

\* Series.sum() of the numbers of col in the rows: missing cells are skipped
RECURSIVE SumCol(_, _)
SumCol(col, rows) ==
    IF rows = {} THEN Num(0, 0)
    ELSE LET i == CHOOSE x \in rows : TRUE
         IN  IF IsNum(col[i]) THEN NumAdd(SumCol(col, rows \ {i}), col[i])
             ELSE SumCol(col, rows \ {i})

\* total_revenue of page 01
TotalRevenue(t, rows) == IF FS \in DOMAIN t THEN SumCol(t[FS], rows) ELSE Num(0, 0)

\* a / n (true division), kept as the pair it is the quotient of
Ratio(a, n) == [t |-> "ratio", s |-> <<>>, m |-> a, e |-> n]

\* avg_order_value of page 01 for the revenue total
AverageOrderValue(t, rows, total) ==
    IF /\ InvoiceCol \in DOMAIN t
       /\ NUnique(SelectIdx(t[InvoiceCol], rows)) > 0
       /\ NumGT(total, Num(0, 0))
    THEN Ratio(total, NUnique(SelectIdx(t[InvoiceCol], rows)))
    ELSE Num(0, 0)

\* the months (yyyymm) of the rows that have a date: the keys groupby keeps
MonthsOf(t, rows) ==
    {t["Date"][i].m \div 100 : i \in {j \in rows : t["Date"][j].t = "date"}}

\* a chart of page 01 over the months of the rows, drawn from the columns
\* cols: drawn whenever the monthly rollup is not empty
MonthlyTrend(t, rows, cols) ==
    IF "Date" \in DOMAIN t /\ cols \subseteq DOMAIN t /\ rows # {}
    THEN (IF MonthsOf(t, rows) # {} THEN "chart" ELSE "no trend data")
    ELSE "columns missing"

\* the number of a month yyyymm in the calendar
MonthNumber(ym) == ((ym \div 100) * 12) + (ym % 100)

\* the rows of groupby(pd.Grouper(key='Date', freq='M')): every month from
\* the first to the last that has a row
SpanOfMonths(months) ==
    IF months = {} THEN 0
    ELSE MonthNumber(CHOOSE x \in months : \A y \in months : x >= y)
         - MonthNumber(CHOOSE x \in months : \A y \in months : x <= y) + 1

\* the timestamps of the rows that have a date
DistinctDates(t, rows) ==
    {<<t["Date"][i].m, t["Date"][i].e>> : i \in {j \in rows : t["Date"][j].t = "date"}}

\* the monthly chart of page 02: drawn when the rows have more than one
\* distinct date and the monthly rollup more than one row
MonthlyCombo(t, rows) ==
    IF "Date" \in DOMAIN t
       /\ {FS, "Stock Value Cost", "Inventory Turnover"} \subseteq DOMAIN t
    THEN IF Cardinality(DistinctDates(t, rows)) > 1
         THEN (IF SpanOfMonths(MonthsOf(t, rows)) > 1 THEN "chart"
               ELSE "not enough monthly data")
         ELSE "not enough dates"
    ELSE "columns missing"

\* the keys of groupby(Date.dt.to_period("M")) on page 01: the months that
\* have a row; no rollup without the chart's columns
TrendBuckets(t, rows, cols) ==
    IF "Date" \in DOMAIN t /\ cols \subseteq DOMAIN t /\ rows # {}
    THEN MonthsOf(t, rows)
    ELSE {}

\* the bins of pd.Grouper(key='Date', freq='M'): every calendar month from
\* the first month of the rows to the last, with or without rows
GrouperBuckets(months) ==
    IF months = {} THEN {}
    ELSE LET lo == CHOOSE x \in months : \A y \in months : x <= y
             hi == CHOOSE x \in months : \A y \in months : x >= y
         IN  {ym \in {(y * 100) + m : y \in (lo \div 100)..(hi \div 100), m \in 1..12} :
                 lo <= ym /\ ym <= hi}

\* the rows of trends_data of page 02; no rollup without the chart's
\* columns or with one distinct date
ComboBuckets(t, rows) ==
    IF /\ "Date" \in DOMAIN t
       /\ {FS, "Stock Value Cost", "Inventory Turnover"} \subseteq DOMAIN t
       /\ Cardinality(DistinctDates(t, rows)) > 1
    THEN GrouperBuckets(MonthsOf(t, rows))
    ELSE {}

\* df_filtered_cancel['Is_Cancelled']
IsCancelled(t, i) == t["Order Status"][i] = Word("Cancelled")

\* a / n * 100, kept as the pair 100 a / n
Percent(a, n) == Ratio(100 * a, n)

\* overall_cancel_rate: cancelled invoices over invoices
OverallCancelRate(t, rows) ==
    IF NUnique(SelectIdx(t[InvoiceCol], rows)) > 0
    THEN Percent(NUnique(SelectIdx(t[InvoiceCol], {i \in rows : IsCancelled(t, i)})),
                 NUnique(SelectIdx(t[InvoiceCol], rows)))
    ELSE Percent(0, 1)

\* Cancellation_Rate_Month of the bin ym: the cancelled rows of the month
\* ('Is_Cancelled', 'sum') over its invoices ('Invoice ID', 'nunique'); 0/0
\* is NaN and fillna(0) makes it 0
MonthlyCancelRate(t, rows, ym) ==
    IF NUnique(SelectIdx(t[InvoiceCol], {i \in rows : t["Date"][i].m \div 100 = ym})) = 0
    THEN Percent(0, 1)
    ELSE Percent(Cardinality({i \in rows : t["Date"][i].m \div 100 = ym /\ IsCancelled(t, i)}),
                 NUnique(SelectIdx(t[InvoiceCol], {i \in rows : t["Date"][i].m \div 100 = ym})))

\* the Cancellation Analysis section of page 02: the overall rate, and the
\* monthly rates when their chart is drawn
CancellationAnalysis(t, rows) ==
    IF {"Order Status", InvoiceCol} \subseteq DOMAIN t /\ rows # {}
    THEN [section |-> TRUE,
          overall |-> OverallCancelRate(t, rows),
          monthly |-> IF /\ "Date" \in DOMAIN t
                         /\ Cardinality(DistinctDates(t, rows)) > 1
                         /\ Cardinality(GrouperBuckets(MonthsOf(t, rows))) > 1
                      THEN [ym \in GrouperBuckets(MonthsOf(t, rows)) |->
                               MonthlyCancelRate(t, rows, ym)]
                      ELSE <<>>]
    ELSE [section |-> FALSE, overall |-> Percent(0, 1), monthly |-> <<>>]

\* the rest of a run of page 01 once the filters left some rows
RenderSalesOverview ==
    /\ pc = "filtered"
    /\ page = "01"
    /\ shown # {}
    /\ out' = [aov |-> AverageOrderValue(df, shown, TotalRevenue(df, shown)),
               trend |-> MonthlyTrend(df, shown, {FS, TC, NetProfitCol}),
               margin |-> MonthlyTrend(df, shown, {MarginCol}),
               months |-> TrendBuckets(df, shown, {FS, TC, NetProfitCol})]
    /\ pc' = "rendered"
    /\ UNCHANGED <<sheet, df, first, page, range, view, sel, shown, source, cache, reads>>

\* the rest of a run of page 02 once the filters left some rows
RenderInventoryAnalysis ==
    /\ pc = "filtered"
    /\ page = "02"
    /\ shown # {}
    /\ out' = [monthly |-> MonthlyCombo(df, shown),
               months |-> ComboBuckets(df, shown),
               cancel |-> CancellationAnalysis(df, shown)]
    /\ pc' = "rendered"
    /\ UNCHANGED <<sheet, df, first, page, range, view, sel, shown, source, cache, reads>>

\* every page shows its 'no data' message and stops on an empty table
NoDataStop ==
    /\ pc = "loaded"
    /\ IsEmpty(df)
    /\ out' = [message |-> "no data"]
    /\ pc' = "stopped"
    /\ UNCHANGED <<sheet, df, first, page, range, view, sel, shown, source, cache, reads>>

Next ==
    \/ LoadSalesOverview
    \/ LoadInventoryAnalysis
    \/ LoadCustomerSupplier
    \/ LoadSalesForecast
    \/ LoadOrderLookup
    \/ FilterSalesOverview
    \/ FilterInventoryAnalysis
    \/ FilterCustomerSupplier
    \/ RenderSalesOverview
    \/ RenderInventoryAnalysis
    \/ NoDataStop

Spec == Init /\ [][Next]_vars

----------------------------------------------------------------------------
(* pages/06_Order_Lookup.py: the lookup of one invoice *)

\* what is typed for an Invoice ID, in the sheet and in the search box
IdStrings == StringsUpTo({"A", "a", " "}, MaxLen)

\* sheets of one or two orders, with or without the Invoice ID column
LookupSheet(n, cols, ids) ==
    [c \in cols \cup {"Product"} |->
        IF c = InvoiceCol THEN ids ELSE [i \in 1..n |-> Word("Widget")]]

InitLookup ==
    /\ \E n \in RowCounts : \E cols \in SUBSET {InvoiceCol} :
          \E ids \in [1..n -> {Str(x) : x \in IdStrings}] :
             sheet = LookupSheet(n, cols, ids)
    /\ df = EmptyFrame
    /\ first = EmptyFrame
    /\ pc = "raw"
    /\ page = "none" /\ range = <<0, 0>> /\ view = {}
    /\ sel = NoSel /\ shown = {} /\ out = NoOut /\ source = "ok" /\ cache = NoCache /\ reads = NoCache

\* the comparison without .str.strip().str.lower() on the stored side
MatchingOrdersStoredAsIs(t, q) ==
    {i \in 1..NRows(t) : t[InvoiceCol][i].s = LowerStr(Strip(q))}

\* df['Invoice ID'].str.strip().str.lower() == invoice_id_to_search.strip().lower()
MatchingOrders(t, q) ==
    {i \in 1..NRows(t) : LowerStr(Strip(t[InvoiceCol][i].s)) = LowerStr(Strip(q))}

\* what the page shows for the search string q once the button is pressed
LookupOutcome(t, q) ==
    IF q = <<>> THEN "enter an invoice id"
    ELSE IF InvoiceCol \notin DOMAIN t THEN "column not found"
    ELSE IF MatchingOrders(t, q) # {} THEN "found"
    ELSE "no order found"

\* one press of "Look Up Order" with q in the text box
LookUpOrder ==
    /\ pc = "loaded"
    /\ page = "06"
    /\ ~IsEmpty(df)
    /\ \E q \in IdStrings :
          /\ out' = [query |-> q, outcome |-> LookupOutcome(df, q)]
          /\ shown' = IF LookupOutcome(df, q) = "found" THEN MatchingOrders(df, q) ELSE {}
    /\ pc' = "looked up"
    /\ UNCHANGED <<sheet, df, first, page, range, view, sel, source, cache, reads>>

NextLookup ==
    \/ LoadOrderLookup
    \/ LookUpOrder

SpecLookup == InitLookup /\ [][NextLookup]_vars

----------------------------------------------------------------------------
(* @st.cache_data on the loaders and the Refresh Data buttons *)

Pages == {"01", "02", "03", "04", "06"}
\* the pages with a Refresh Data button of their own
RefreshPages == {"01", "02", "03"}

\* the loader of page p
Loader(p, raw) ==
    CASE p = "01" -> get_sales_overview_data(raw)
      [] p = "02" -> get_inventory_analysis_data(raw)
      [] p = "03" -> get_cs_page_data(raw)
      [] p = "04" -> get_base_data_for_forecast(raw)
      [] p = "06" -> get_order_lookup_data(raw)

\* what the sheet can hold while the dashboard runs
CacheSheets == {CategoricalSheet("Product", Word(w)) : w \in {"Widget", "Gadget"}}

InitCache ==
    /\ sheet \in CacheSheets
    /\ df = EmptyFrame
    /\ first = EmptyFrame
    /\ pc = "raw"
    /\ page = "none" /\ range = <<0, 0>> /\ view = {}
    /\ sel = NoSel /\ shown = {} /\ out = NoOut /\ source = "ok" /\ cache = NoCache /\ reads = NoCache

\* f with the value v at p
Put(f, p, v) == [x \in DOMAIN f \cup {p} |-> IF x = p THEN v ELSE f[x]]

\* a run of page p calls its loader: st.cache_data returns the stored result
\* when it holds one and calls the function, storing its result, otherwise
ReadPage(p) ==
    /\ page' = p
    /\ IF p \in DOMAIN cache
       THEN /\ df' = cache[p]
            /\ out' = [fetched |-> FALSE]
            /\ cache' = cache
       ELSE /\ df' = Loader(p, sheet)
            /\ out' = [fetched |-> TRUE]
            /\ cache' = Put(cache, p, Loader(p, sheet))
    /\ reads' = Put(reads, p, df')
    /\ pc' = "read"
    /\ UNCHANGED <<sheet, first, range, view, sel, shown, source>>

Read == \E p \in Pages : ReadPage(p)

\* the button of one page's filter expander without its st.cache_data.clear()
RefreshOnPageKeepsCache(p) ==
    /\ page = p
    /\ pc = "read"
    /\ ~IsEmpty(df)
    /\ reads' = NoCache
    /\ sel' = NoSel
    /\ pc' = "refreshed"
    /\ UNCHANGED <<sheet, df, first, page, range, view, shown, out, source, cache>>

\* the Refresh Data button of page p, drawn once the page has its table:
\* st.cache_data.clear(), the filters back to their defaults, st.rerun()
RefreshOnPage(p) ==
    /\ page = p
    /\ pc = "read"
    /\ ~IsEmpty(df)
    /\ cache' = NoCache
    /\ reads' = NoCache
    /\ sel' = NoSel
    /\ pc' = "refreshed"
    /\ UNCHANGED <<sheet, df, first, page, range, view, shown, out, source>>

RefreshPage == \E p \in RefreshPages : RefreshOnPage(p)

\* the Refresh Data button of app.py's sidebar: st.cache_data.clear()
RefreshSidebar ==
    /\ cache' = NoCache
    /\ reads' = NoCache
    /\ pc' = "refreshed"
    /\ UNCHANGED <<sheet, df, first, page, range, view, sel, shown, out, source>>

\* somebody edits the sheet
EditSheet ==
    /\ sheet' \in CacheSheets \ {sheet}
    /\ pc' = "edited"
    /\ UNCHANGED <<df, first, page, range, view, sel, shown, out, source, cache, reads>>

NextCache ==
    \/ Read
    \/ RefreshPage
    \/ RefreshSidebar
    \/ EditSheet

SpecCache == InitCache /\ [][NextCache]_vars

----------------------------------------------------------------------------
(* pages/04_Sales_Forecast.py: the forecast request *)

\* len(prophet_df) < 20
MinPoints == 20
SeriesTooShortOrEqual(n) == n <= MinPoints
SeriesTooShort(n) == n < MinPoints

\* the i-th day of a sales history: 13 January 2024 onwards, written day first
ForecastDate(i) == IF i <= 19 THEN Str(DateStr(12 + i, 1)) ELSE Str(DateStr(i - 19, 2))

\* sales histories of n rows, one per day; the last row can differ from the
\* others in its product or its category, or repeat the first day
Oddities == {"none", "product", "category", "date"}
ForecastSheet(n, odd) ==
    [c \in {"Date", "Final Sale", "Product", "Category"} |->
        [i \in 1..n |->
            IF c = "Date" THEN (IF i = n /\ odd = "date" THEN ForecastDate(1) ELSE ForecastDate(i))
            ELSE IF c = "Final Sale" THEN Str(<<"5">>)
            ELSE IF c = "Product"
            THEN (IF i = n /\ odd = "product" THEN Word("Gadget") ELSE Word("Widget"))
            ELSE (IF i = n /\ odd = "category" THEN Word("Toys") ELSE Word("Tools"))]]

InitForecast ==
    /\ \E n \in (MinPoints - Slack - 1)..(MinPoints + Slack) : \E odd \in Oddities :
          sheet = ForecastSheet(n, odd)
    /\ df = EmptyFrame
    /\ first = EmptyFrame
    /\ pc = "raw"
    /\ page = "none" /\ range = <<0, 0>> /\ view = {}
    /\ sel = NoSel /\ shown = {} /\ out = NoOut /\ source = "ok" /\ cache = NoCache /\ reads = NoCache

AllProducts == Word("All Products")
AllCategories == Word("All Categories")

\* the rows of df_to_filter: the product when one is selected, else the
\* category when one is selected, else every row
ForecastRows(t, s) ==
    IF s.product # AllProducts
    THEN {i \in 1..NRows(t) : t["Product"][i] = s.product}
    ELSE IF s.category # AllCategories
    THEN {i \in 1..NRows(t) : t["Category"][i] = s.category}
    ELSE 1..NRows(t)

\* len(prophet_df): groupby(Date.dt.date) leaves one row per calendar day
SeriesLength(t, rows) == Cardinality({t["Date"][i].m : i \in rows})

\* what the page shows: the hint when the button was not pressed, the
\* insufficient-data error without a call of Prophet for a short series,
\* else the forecast, or the error caught from Prophet when it raises
ForecastOutcome(pressed, n, raises) ==
    IF ~pressed THEN [requested |-> FALSE, points |-> n, invoked |-> FALSE, message |-> "hint"]
    ELSE IF SeriesTooShort(n)
    THEN [requested |-> TRUE, points |-> n, invoked |-> FALSE, message |-> "insufficient data"]
    ELSE [requested |-> TRUE, points |-> n, invoked |-> TRUE,
          message |-> IF raises THEN "forecasting error" ELSE "forecast"]

\* one run of the page on its table: the selections of the sidebar, the
\* button pressed or not, Prophet raising or not when it is called
GenerateForecast ==
    /\ pc = "loaded"
    /\ page = "04"
    /\ ~IsEmpty(df)
    /\ \E product \in {AllProducts} \cup Options(df, "Product") :
       \E category \in (IF product = AllProducts
                        THEN {AllCategories} \cup Options(df, "Category")
                        ELSE {df["Category"][i] :
                                 i \in {j \in 1..NRows(df) : df["Product"][j] = product}}) :
       \E pressed \in BOOLEAN : \E raises \in BOOLEAN :
          /\ sel' = [product |-> product, category |-> category]
          /\ shown' = ForecastRows(df, sel')
          /\ out' = ForecastOutcome(pressed, SeriesLength(df, shown'), raises)
    /\ pc' = "done"
    /\ UNCHANGED <<sheet, df, first, page, range, view, source, cache, reads>>

NextForecast ==
    \/ LoadSalesForecast
    \/ GenerateForecast

SpecForecast == InitForecast /\ [][NextForecast]_vars

----------------------------------------------------------------------------
(* pages/01_Sales_Overview.py: format_as_inr *)

Abs(n) == IF n < 0 THEN 0 - n ELSE n

\* Python's round(x) of the number m * 10^-e given by its absolute value a:
\* to the nearest integer, a half to the even neighbour
RoundAbs(a, p) ==
    LET q == a \div p
        r == a % p
    IN  IF 2 * r > p \/ (2 * r = p /\ q % 2 = 1) THEN q + 1 ELSE q

RoundAwayAbs(a, p) == IF 2 * (a % p) >= p THEN (a \div p) + 1 ELSE a \div p

RoundHalfAway(c) ==
    IF c.m < 0 THEN 0 - RoundAwayAbs(Abs(c.m), Pow10(c.e))
    ELSE RoundAwayAbs(Abs(c.m), Pow10(c.e))

Round(c) ==
    IF c.m < 0 THEN 0 - RoundAbs(Abs(c.m), Pow10(c.e)) ELSE RoundAbs(Abs(c.m), Pow10(c.e))

\* the loop over other_digits: a comma after every digit that has an even,
\* positive number of digits to its right
RECURSIVE GroupOther(_, _)
GroupOther(other, i) ==
    IF i > Len(other) THEN <<>>
    ELSE <<other[i]>> \o
         (IF (Len(other) - i) % 2 = 0 /\ i # Len(other) THEN <<",">> ELSE <<>>) \o
         GroupOther(other, i + 1)

\* formatted_integer of the digits s_int
FormattedInteger(s_int) ==
    IF Len(s_int) <= 3 THEN s_int
    ELSE GroupOther(SubSeq(s_int, 1, Len(s_int) - 3), 1) \o <<",">> \o
         SubSeq(s_int, Len(s_int) - 2, Len(s_int))

\* prefix + formatted_integer for the rounded value r
FormatRounded(r) ==
    (IF r < 0 THEN <<"-", " ", RUPEE, " ">> ELSE <<RUPEE, " ">>) \o
    FormattedInteger(DigitsOf(Abs(r)))

\* float(num_val) of a string that is a number, NaN for any other string
FloatOf(c) == IF IsStr(c) THEN ParseNumber(c.s) ELSE c

format_as_inr(num_val) ==
    IF IsNA(num_val) THEN <<RUPEE, " ", "-">>
    ELSE IF IsNum(FloatOf(num_val)) THEN FormatRounded(Round(FloatOf(num_val)))
    ELSE num_val.s

\* the amounts to display: integer parts of up to MaxDigits digits 0, 1, 9,
\* with no tenths, 4, 5 or 6 tenths, of either sign; a missing value; text
Tenths == {0, 4, 5, 6}
Amounts ==
    {Normalise(sign * (10 * ParseDigits(ds) + d), 1) :
        sign \in {-1, 1}, d \in Tenths, ds \in StringsUpTo({"0", "1", "9"}, MaxDigits)}
    \cup {NaN, Str(<<"a">>), Str(<<"5">>)}

InitFormat ==
    /\ sheet = EmptyFrame
    /\ \E c \in Amounts : df = [Total_Revenue |-> <<c>>]
    /\ first = EmptyFrame
    /\ pc = "raw"
    /\ page = "none" /\ range = <<0, 0>> /\ view = {}
    /\ sel = NoSel /\ shown = {} /\ out = NoOut /\ source = "ok" /\ cache = NoCache /\ reads = NoCache

\* daily_trends['Total_Revenue'].apply(format_as_inr)
FormatAsInr ==
    /\ pc = "raw"
    /\ out' = [text |-> format_as_inr(df.Total_Revenue[1])]
    /\ pc' = "formatted"
    /\ UNCHANGED <<sheet, df, first, page, range, view, sel, shown, source, cache, reads>>

NextFormat == FormatAsInr

SpecFormat == InitFormat /\ [][NextFormat]_vars

----------------------------------------------------------------------------
(* pages/02_Inventory_Analysis.py: the loader run on a sheet and again    *)
(* after other records of the sheet changed                               *)

StockLeftCells == {Word("0"), Word("2"), Word("5"), Str(<<>>)}
SourceFlagCells == {Word("Reorder"), Word("Surplus"), Str(<<>>)}

\* a sheet of two records with the stock columns, with or without a
\* 'Stock Alert Flag' column of its own
RecordSheet(left, flags) ==
    LET t == [c \in {"Stock Left", "Reorder Level", "Max Stock Level", "Unit Price"} |->
                 CASE c = "Stock Left" -> left
                   [] c = "Reorder Level" -> <<Word("1"), Word("1")>>
                   [] c = "Max Stock Level" -> <<Word("3"), Word("3")>>
                   [] c = "Unit Price" -> <<Word("2"), Word("2")>>]
    IN  IF flags = <<>> THEN t ELSE SetCol(t, "Stock Alert Flag", flags)

RecordSheets ==
    {RecordSheet(left, flags) :
        left \in [1..2 -> StockLeftCells],
        flags \in {<<>>} \cup [1..2 -> SourceFlagCells]}

InitRecords ==
    /\ sheet \in RecordSheets
    /\ df = EmptyFrame
    /\ first = EmptyFrame
    /\ pc = "raw"
    /\ page = "none" /\ range = <<0, 0>> /\ view = {}
    /\ sel = NoSel /\ shown = {} /\ out = NoOut /\ source = "ok" /\ cache = NoCache /\ reads = NoCache

\* get_inventory_analysis_data() on the sheet as it is
LoadRecords ==
    /\ pc = "raw"
    /\ first' = get_inventory_analysis_data(sheet)
    /\ pc' = "once"
    /\ UNCHANGED <<sheet, df, ui>>

\* somebody edits the second record of the sheet and leaves the first alone
EditOtherRecord ==
    /\ pc = "once"
    /\ sheet' \in {s \in RecordSheets \ {sheet} :
                     /\ DOMAIN s = DOMAIN sheet
                     /\ \A c \in DOMAIN s : s[c][1] = sheet[c][1]}
    /\ pc' = "edited"
    /\ UNCHANGED <<df, first, ui>>

\* get_inventory_analysis_data() on the edited sheet (after a refresh)
LoadRecordsAgain ==
    /\ pc = "edited"
    /\ df' = get_inventory_analysis_data(sheet)
    /\ pc' = "twice"
    /\ UNCHANGED <<sheet, first, ui>>

NextRecords == LoadRecords \/ EditOtherRecord \/ LoadRecordsAgain

SpecRecords == InitRecords /\ [][NextRecords]_vars

----------------------------------------------------------------------------
(* The filter step of pages 01, 02 and 03, mask after mask, with any      *)
(* number of filters changed                                              *)

\* the order in which each page applies its categorical filters
FilterOrder(p) ==
    IF p = "01" THEN <<"Weekend/Weekday", "Product", "Category", "Customer Name", "Supplier">>
    ELSE IF p = "02" THEN <<"Product", "Category", "Customer Name", "Stock Alert Flag">>
    ELSE <<"Region", "Customer Flag", "Weekend/Weekday", ClickedCustomer>>

\* the column of the table the filter named col looks at
MaskCol(col) == IF col = ClickedCustomer THEN "Customer Name" ELSE col

\* the `if` in front of the mask of the filter col
IsActive(p, t, s, col) ==
    /\ MaskCol(col) \in DOMAIN t
    /\ IF p = "01" THEN s[col] # {}
       ELSE IF p = "02" THEN s[col] # {} /\ ALL \notin s[col]
       ELSE IF col = ClickedCustomer THEN s[col] # None
       ELSE s[col] # ALL

\* the mask of the filter col at row i: isin on pages 01 and 02, == on page 03
Keeps(p, t, s, col, i) ==
    IF p = "03" THEN t[MaskCol(col)][i] = s[col] ELSE t[MaskCol(col)][i] \in s[col]

\* the mask taken over the loaded table instead of df_filtered
FilterStepOnFull(p, t, s, col, rows) ==
    IF IsActive(p, t, s, col) THEN {i \in 1..NRows(t) : Keeps(p, t, s, col, i)} ELSE rows

\* df_filtered = df_filtered[mask]
FilterStep(p, t, s, col, rows) ==
    IF IsActive(p, t, s, col) THEN {i \in rows : Keeps(p, t, s, col, i)} ELSE rows

\* the filters of order applied one after the other to rows
RECURSIVE FilterSeq(_, _, _, _, _)
FilterSeq(p, t, s, order, rows) ==
    IF order = <<>> THEN rows
    ELSE FilterSeq(p, t, s, Tail(order), FilterStep(p, t, s, Head(order), rows))

\* what the third record of the sheet may hold
ThirdRecords == {"Widget", "Gadget"} \X {"North", "South"} \X {"Ann", "Bob"}

\* three records of two products, two regions and two customers, dated in
\* two months
ThreeRecordSheet(r) ==
    [c \in {"Date", "Product", "Region", "Customer Name"} |->
        CASE c = "Date" -> <<Str(DateStr(13, 1)), Str(DateStr(14, 2)), Str(DateStr(14, 2))>>
          [] c = "Product" -> <<Word("Widget"), Word("Gadget"), Word(r[1])>>
          [] c = "Region" -> <<Word("North"), Word("South"), Word(r[2])>>
          [] c = "Customer Name" -> <<Word("Ann"), Word("Bob"), Word(r[3])>>]

InitFilters ==
    /\ \E r \in ThirdRecords : sheet = ThreeRecordSheet(r)
    /\ df = EmptyFrame
    /\ first = EmptyFrame
    /\ pc = "raw"
    /\ page = "none" /\ range = <<0, 0>> /\ view = {}
    /\ sel = NoSel /\ shown = {} /\ out = NoOut /\ source = "ok" /\ cache = NoCache /\ reads = NoCache

\* what the session can hold for the filter on col: the clicked customer is
\* one of the customers of the chart
FilterChoices(p, t, col) ==
    IF col = ClickedCustomer THEN {None} \cup Options(t, "Customer Name")
    ELSE Choices(p, t, col)

\* every combination of choices for the filters of order
RECURSIVE SelectionsOver(_, _, _)
SelectionsOver(p, t, order) ==
    IF order = <<>> THEN {NoSel}
    ELSE {Put(s, Head(order), c) :
             s \in SelectionsOver(p, t, Tail(order)), c \in FilterChoices(p, t, Head(order))}

\* every combination of the filters of page p
AllSelections(p, t) == SelectionsOver(p, t, FilterOrder(p))

\* one run of the filter step of page p: the date mask, then the
\* categorical masks in the page's order
ApplyFilters(p) ==
    /\ pc = "loaded"
    /\ page = p
    /\ ~IsEmpty(df)
    /\ \E r \in Ranges(df) : \E s \in AllSelections(p, df) :
          /\ range' = r
          /\ sel' = s
          /\ view' = DateRows(df, r)
          /\ shown' = FilterSeq(p, df, s, FilterOrder(p), DateRows(df, r))
    /\ pc' = "filtered"
    /\ UNCHANGED <<sheet, df, first, page, out, source, cache, reads>>

ApplySalesOverviewFilters == ApplyFilters("01")
ApplyInventoryFilters == ApplyFilters("02")
ApplyCustomerSupplierFilters == ApplyFilters("03")

NextFilters ==
    \/ LoadSalesOverview
    \/ LoadInventoryAnalysis
    \/ LoadCustomerSupplier
    \/ ApplySalesOverviewFilters
    \/ ApplyInventoryFilters
    \/ ApplyCustomerSupplierFilters

SpecFilters == InitFilters /\ [][NextFilters]_vars

----------------------------------------------------------------------------
(* pages/04_Sales_Forecast.py: the product and category selectors over    *)
(* the runs of one session                                                *)

\* sales histories of three days: a Widget of Tools, a Gadget of Toys, and
\* a third sale of either product in either category
SelectorSheet(product, category) ==
    [c \in {"Date", "Final Sale", "Product", "Category"} |->
        CASE c = "Date" -> <<Str(DateStr(13, 1)), Str(DateStr(14, 1)), Str(DateStr(15, 1))>>
          [] c = "Final Sale" -> <<Word("5"), Word("5"), Word("5")>>
          [] c = "Product" -> <<Word("Widget"), Word("Gadget"), Word(product)>>
          [] c = "Category" -> <<Word("Tools"), Word("Toys"), Word(category)>>]

InitSelectors ==
    /\ \E product \in {"Widget", "Gadget"} : \E category \in {"Tools", "Toys", "Parts"} :
          sheet = SelectorSheet(product, category)
    /\ df = EmptyFrame
    /\ first = EmptyFrame
    /\ pc = "raw"
    /\ page = "none" /\ range = <<0, 0>> /\ view = {}
    /\ sel = NoSel /\ shown = {} /\ out = NoOut /\ source = "ok" /\ cache = NoCache /\ reads = NoCache

\* the rows of product p
RowsOfProduct(t, p) == {i \in 1..NRows(t) : t["Product"][i] = p}

\* category_options_display as a set
CategoryOptions(t, p) ==
    IF p # AllProducts
    THEN {t["Category"][i] : i \in RowsOfProduct(t, p)}
    ELSE {AllCategories} \cup Options(t, "Category")

\* category_options_display[0]: unique() keeps the order of appearance
FirstCategoryOption(t, p) ==
    IF p # AllProducts
    THEN t["Category"][CHOOSE i \in RowsOfProduct(t, p) : \A j \in RowsOfProduct(t, p) : i <= j]
    ELSE AllCategories

\* forecast_category_val before the category selector is drawn
CategoryBeforeWidget(t, s, p) ==
    IF "category" \notin DOMAIN s \/ s.category \notin CategoryOptions(t, p)
    THEN FirstCategoryOption(t, p)
    ELSE s.category

\* what the user does to the sidebar before a run: nothing, a pick in the
\* product selector, or a pick in the category selector when it was drawn
\* enabled by the run before
SelectorInputs(t, s) ==
    {[widget |-> "none", value |-> None]}
        \cup (IF DOMAIN s = {} THEN {}
              ELSE {[widget |-> "product", value |-> p] :
                        p \in ({AllProducts} \cup Options(t, "Product")) \ {s.product}})
        \cup (IF DOMAIN s = {} \/ s.product # AllProducts THEN {}
              ELSE {[widget |-> "category", value |-> c] :
                        c \in CategoryOptions(t, AllProducts) \ {s.category}})

\* the product selector writes its value back without a test
SelectedProduct(s, input) ==
    IF input.widget = "product" THEN input.value
    ELSE IF DOMAIN s = {} THEN AllProducts
    ELSE s.product

\* the category selector writes its value back only while it is enabled
StoredCategory(t, s, input) ==
    IF SelectedProduct(s, input) = AllProducts /\ input.widget = "category"
    THEN input.value
    ELSE CategoryBeforeWidget(t, s, SelectedProduct(s, input))

\* one run of the page after the user's input: the selectors, the rows of
\* the series; out keeps the category the user last picked in the category
\* selector
RunSelectors ==
    /\ pc \in {"loaded", "run"}
    /\ page = "04"
    /\ ~IsEmpty(df)
    /\ \E input \in SelectorInputs(df, sel) :
          /\ sel' = [product |-> SelectedProduct(sel, input),
                     category |-> StoredCategory(df, sel, input)]
          /\ shown' = ForecastRows(df, sel')
          /\ out' = [picked |-> IF input.widget = "category" THEN input.value
                                ELSE IF DOMAIN out = {} THEN None ELSE out.picked,
                     last |-> input.widget]
    /\ pc' = "run"
    /\ UNCHANGED <<sheet, df, first, page, range, view, source, cache, reads>>

NextSelectors == LoadSalesForecast \/ RunSelectors

SpecSelectors == InitSelectors /\ [][NextSelectors]_vars

----------------------------------------------------------------------------
(* Pages 01 and 02 on sales of one or several months, with invoices that  *)
(* span several rows and orders that were cancelled                       *)

SaleDays == {<<13, 1>>, <<14, 2>>, <<15, 3>>}
OrderStates == {"Cancelled", "Completed"}

\* three rows: the first of 13 January on invoice A, the others on any of
\* the days and on invoice A or B
MonthlySheet(days, ids, states) ==
    [c \in {"Date", InvoiceCol, "Order Status", FS, TC, "Stock Value Cost", "Inventory Turnover"} |->
        CASE c = "Date" -> [i \in 1..3 |-> Str(DateStr(days[i][1], days[i][2]))]
          [] c = InvoiceCol -> ids
          [] c = "Order Status" -> [i \in 1..3 |-> Word(states[i])]
          [] OTHER -> [i \in 1..3 |-> Word("5")]]

InitMonthly ==
    /\ \E d2, d3 \in SaleDays : \E i2, i3 \in InvoiceCells :
       \E states \in [1..3 -> OrderStates] :
          sheet = MonthlySheet(<<<<13, 1>>, d2, d3>>, <<Word("A"), i2, i3>>, states)
    /\ df = EmptyFrame
    /\ first = EmptyFrame
    /\ pc = "raw"
    /\ page = "none" /\ range = <<0, 0>> /\ view = {}
    /\ sel = NoSel /\ shown = {} /\ out = NoOut /\ source = "ok" /\ cache = NoCache /\ reads = NoCache

NextMonthly ==
    \/ LoadSalesOverview
    \/ LoadInventoryAnalysis
    \/ FilterSalesOverview
    \/ FilterInventoryAnalysis
    \/ RenderSalesOverview
    \/ RenderInventoryAnalysis

SpecMonthly == InitMonthly /\ [][NextMonthly]_vars

----------------------------------------------------------------------------
(* The top 10 charts of pages 01, 02 and 03                               *)

\* nlargest(10)
TopCount == 10

\* the product and customer names of the model, in the order of Python's str
GroupNames == <<"A", "B", "C", "D", "E", "F", "G", "H", "I", "J", "K">>
KeyRank(k) == CHOOSE i \in 1..Len(GroupNames) : GroupNames[i] = k.s[1]

\* the keys of df.groupby(col) in the order of their first row (sort=False)
RECURSIVE GroupOrderOfAppearance(_, _, _)
GroupOrderOfAppearance(t, rows, col) ==
    IF rows = {} THEN <<>>
    ELSE LET i == CHOOSE x \in rows : \A y \in rows : x <= y
         IN  <<t[col][i]>> \o GroupOrderOfAppearance(t, {j \in rows : t[col][j] # t[col][i]}, col)

\* the keys left to sort, least first
RECURSIVE SortedKeys(_)
SortedKeys(keys) ==
    IF keys = {} THEN <<>>
    ELSE LET k == CHOOSE x \in keys : \A y \in keys : KeyRank(x) <= KeyRank(y)
         IN  <<k>> \o SortedKeys(keys \ {k})

\* the keys of df.groupby(col): sorted (sort=True is the default)
GroupOrder(t, rows, col) == SortedKeys({t[col][i] : i \in rows})

\* df.groupby(col)[val].sum(): one total per key, in the order of the keys
RECURSIVE GroupSumsOver(_, _, _, _, _)
GroupSumsOver(t, rows, col, val, order) ==
    IF order = <<>> THEN <<>>
    ELSE <<[key |-> Head(order),
            total |-> SumCol(t[val], {i \in rows : t[col][i] = Head(order)})]>>
         \o GroupSumsOver(t, rows, col, val, Tail(order))
GroupSums(t, rows, col, val) == GroupSumsOver(t, rows, col, val, GroupOrder(t, rows, col))

\* Series.nlargest(n) (keep='first'): the largest total, the first of the
\* series among equals, then the same on the rest
RECURSIVE NLargest(_, _, _)
NLargest(sums, left, n) ==
    IF n = 0 \/ left = {} THEN <<>>
    ELSE LET i == CHOOSE x \in left :
                     \A y \in left : \/ NumGT(sums[x].total, sums[y].total)
                                     \/ (sums[x].total = sums[y].total /\ x <= y)
         IN  <<sums[i].key>> \o NLargest(sums, left \ {i}, n - 1)

\* the groups of a top 10 chart; no chart without its columns
TopGroups(t, rows, col, val) ==
    IF {col, val} \subseteq DOMAIN t /\ rows # {}
    THEN NLargest(GroupSums(t, rows, col, val),
                  1..Cardinality({t[col][i] : i \in rows}), TopCount)
    ELSE <<>>

\* sales of eleven products to eleven customers on one day: nine sell 9, the
\* first two rows are those of A and B in either order; the sheet may have
\* one more sale, of a day later
RankingValues == {"1", "2"}
RankingSheet(ab, va, vb, extra) ==
    LET names == ab \o SubSeq(GroupNames, 3, Len(GroupNames)) \o extra
        n == Len(names)
        value(i) == IF names[i] = "A" /\ i <= 2 THEN va
                    ELSE IF names[i] = "B" /\ i <= 2 THEN vb
                    ELSE IF i > Len(GroupNames) THEN "1" ELSE "9"
    IN  [c \in {"Date", "Product", "Customer Name", FS, TC, "Stock Value Cost"} |->
            [i \in 1..n |->
                CASE c = "Date" -> Str(DateStr(IF i > Len(GroupNames) THEN 14 ELSE 13, 1))
                  [] c \in {"Product", "Customer Name"} -> Word(names[i])
                  [] c = TC -> Word("0")
                  [] OTHER -> Word(value(i))]]

InitRanking ==
    /\ \E ab \in {<<"A", "B">>, <<"B", "A">>} : \E va, vb \in RankingValues :
       \E extra \in {<<>>, <<"A">>, <<"B">>, <<"K">>} :
          sheet = RankingSheet(ab, va, vb, extra)
    /\ df = EmptyFrame
    /\ first = EmptyFrame
    /\ pc = "raw"
    /\ page = "none" /\ range = <<0, 0>> /\ view = {}
    /\ sel = NoSel /\ shown = {} /\ out = NoOut /\ source = "ok" /\ cache = NoCache /\ reads = NoCache

\* one run of the filter step of page p in which the user changed the date
\* range only
FilterByDate(p) ==
    /\ pc = "loaded"
    /\ page = p
    /\ ~IsEmpty(df)
    /\ \E r \in Ranges(df) :
          /\ range' = r
          /\ view' = DateRows(df, r)
          /\ shown' = {i \in DateRows(df, r) :
                          Pass(p, df, [col \in FilterCols(p) |-> DefaultChoice(p, col)], i)}
    /\ sel' = [col \in FilterCols(p) |-> DefaultChoice(p, col)]
    /\ pc' = "filtered"
    /\ UNCHANGED <<sheet, df, first, page, out, source, cache, reads>>

\* the top 10 chart of page p drawn from the rows the filters left
RankTop(p, col, val) ==
    /\ pc = "filtered"
    /\ page = p
    /\ shown # {}
    /\ out' = [by |-> col, of |-> val, top |-> TopGroups(df, shown, col, val)]
    /\ pc' = "ranked"
    /\ UNCHANGED <<sheet, df, first, page, range, view, sel, shown, source, cache, reads>>

\* Top 10 Products by Net Profit
RankProductsByProfit == RankTop("01", "Product", NetProfitCol)
\* Top 10 Products by Stock Value
RankProductsByStockValue == RankTop("02", "Product", "Stock Value Cost")
\* Top 10 Customers by Revenue
RankCustomersByRevenue == RankTop("03", "Customer Name", FS)

NextRanking ==
    \/ LoadSalesOverview
    \/ LoadInventoryAnalysis
    \/ LoadCustomerSupplier
    \/ \E p \in {"01", "02", "03"} : FilterByDate(p)
    \/ RankProductsByProfit
    \/ RankProductsByStockValue
    \/ RankCustomersByRevenue

SpecRanking == InitRanking /\ [][NextRanking]_vars

----------------------------------------------------------------------------
(* st.session_state across the runs of the pages, with the cache beneath *)

\* the session key of the date range of a page (so_date_range, cs_date_filter_val)
DateKey == "date_range"
\* the pages whose runs the session model follows widget by widget
SessionPages == {"01", "03"}
SessionKeys(p) == {<<p, k>> : k \in FilterCols(p) \cup {DateKey}}

\* filter_keys_defaults: the date range is that of the table the run read
StoredDefaults(p, t) ==
    [k \in SessionKeys(p) |->
        IF k[2] = DateKey
        THEN (IF "Date" \in DOMAIN t THEN FullRange(t) ELSE DefaultRange)
        ELSE DefaultChoice(p, k[2])]

\* for key, def_val in ...: if key not in st.session_state: st.session_state[key] = def_val
InitSession(s, p, t) ==
    [k \in DOMAIN s \cup SessionKeys(p) |-> IF k \in DOMAIN s THEN s[k] ELSE StoredDefaults(p, t)[k]]

\* for key, def_val in ...: st.session_state[key] = def_val
ResetSession(s, p, t) ==
    [k \in DOMAIN s \cup SessionKeys(p) |->
        IF k \in SessionKeys(p) THEN StoredDefaults(p, t)[k] ELSE s[k]]

\* st.session_state.get("cs_clicked_customer_filter_val")
ClickedIn(s) ==
    IF <<"03", ClickedCustomer>> \in DOMAIN s THEN s[<<"03", ClickedCustomer>>] ELSE None

\* the orders of the session model: two customers on one day, a third order
\* two months later in the longer sheet, and the sheet with its header only
SessionColumns == {"Date", "Final Sale", "Customer Name", "Product", "Category", InvoiceCol}
SessionSheet(n) ==
    [c \in SessionColumns |->
        [i \in 1..n |->
            CASE c = "Date" -> Str(DateStr(IF i = 3 THEN 15 ELSE 13, IF i = 3 THEN 3 ELSE 1))
              [] c = "Final Sale" -> Word(IF i = 2 THEN "2" ELSE "5")
              [] c = "Customer Name" -> Word(IF i = 2 THEN "B" ELSE "A")
              [] c = "Product" -> Word("Widget")
              [] c = "Category" -> Word("Tools")
              [] OTHER -> Word(IF i = 2 THEN "B" ELSE "A")]]
SessionSheets == {SessionSheet(n) : n \in {0, 2, 3}}

InitSessionModel ==
    /\ sheet = SessionSheet(2)
    /\ df = EmptyFrame
    /\ first = EmptyFrame
    /\ pc = "raw"
    /\ page = "none" /\ range = <<0, 0>> /\ view = {}
    /\ sel = NoSel /\ shown = {} /\ out = NoOut /\ source = "ok" /\ cache = NoCache /\ reads = NoCache

\* what the decorated loader of page p returns in the next run
CachedRead(p) == IF p \in DOMAIN cache THEN cache[p] ELSE Loader(p, sheet)

\* the bars of 'Top 10 Customers by Revenue' for the filtered rows: the bar of
\* the clicked customer alone while the click filter is active
CustomerBars(t, rows, clicked) ==
    IF ~({"Customer Name", FS} \subseteq DOMAIN t) \/ rows = {} THEN {}
    ELSE IF clicked # None THEN {t["Customer Name"][i] : i \in {j \in rows : t["Customer Name"][j] = clicked}}
    ELSE {TopGroups(t, rows, "Customer Name", FS)[n] :
             n \in 1..Len(TopGroups(t, rows, "Customer Name", FS))}

\* the rows page p shows for the session s
SessionRows(p, t, s) ==
    {i \in DateRows(t, s[<<p, DateKey>>]) : Pass(p, t, [c \in FilterCols(p) |-> s[<<p, c>>]], i)}

\* what the user does in one run of page p: nothing, a date range, a press
\* of one of the two buttons, a click on a bar of the chart (03)
SessionInputKinds(p) ==
    {"none", "date", "clear", "refresh"} \cup (IF p = "03" THEN {"click"} ELSE {})

\* the values of an input of that kind, the widgets showing the session s0
SessionInputValues(p, t, s0, kind) ==
    CASE kind = "date" -> Ranges(t)
      [] kind = "click" -> CustomerBars(t, SessionRows(p, t, s0), ClickedIn(s0))
      [] OTHER -> {None}

\* the session after the widgets of the run: each widget writes its value
\* back, the user's pick or the stored value it was drawn with
AfterWidgets(p, s0, kind, v) ==
    IF kind = "date" THEN Put(s0, <<p, DateKey>>, v) ELSE s0

\* a click handler that writes nothing
ToggleLost(s, name) == s

\* if clicked_data: the click filter is set to the bar clicked, or dropped
\* when that bar is the active filter
Toggle(s, name) ==
    Put(s, <<"03", ClickedCustomer>>, IF ClickedIn(s) = name THEN None ELSE name)

\* filters that work on the cached table itself: it keeps the rows shown
FilteredInPlace(t, rows) == SelectRows(t, rows)

\* df_filtered = df_full.copy(), and st.cache_data hands out a copy of what it
\* stores: the table the cache holds after the page filtered t down to rows
KeptByCache(t, rows) == t

\* the session the run of page p leaves on the table t
SessionAfter(p, t, s0, kind, v) ==
    IF kind \in {"clear", "refresh"} THEN ResetSession(s0, p, t)
    ELSE IF kind = "click" THEN Toggle(s0, v)
    ELSE AfterWidgets(p, s0, kind, v)

\* the effect of one run of page p on its table t with the session s0, the
\* user's input being of one of the kinds
RunOn(p, t, s0, kinds) ==
    \E kind \in kinds : \E v \in SessionInputValues(p, t, s0, kind) :
       /\ sel' = SessionAfter(p, t, s0, kind, v)
       /\ cache' = IF kind = "refresh" THEN NoCache
                   ELSE IF kind = "clear" THEN Put(cache, p, t)
                   ELSE Put(cache, p, KeptByCache(t, SessionRows(p, t, AfterWidgets(p, s0, kind, v))))
       /\ out' = IF kind = "click" THEN [input |-> kind, bar |-> v] ELSE [input |-> kind]
       /\ pc' = IF kind \in {"none", "date"} THEN "shown" ELSE "rerun"
       /\ IF kind \in {"clear", "refresh"}
          THEN range' = <<0, 0>> /\ view' = {} /\ shown' = {}
          ELSE /\ range' = AfterWidgets(p, s0, kind, v)[<<p, DateKey>>]
               /\ view' = DateRows(t, range')
               /\ shown' = SessionRows(p, t, AfterWidgets(p, s0, kind, v))

\* one run of page 01 or 03: the table from the cache, the page's message on
\* an empty table, else the session keys, the widgets, the buttons (each ends
\* the run with st.rerun()), the filters and, on 03, the chart and its click
RunPageWith(p, kinds) ==
    /\ page' = p
    /\ df' = CachedRead(p)
    /\ IF IsEmpty(CachedRead(p))
       THEN /\ pc' = "stopped"
            /\ cache' = Put(cache, p, CachedRead(p))
            /\ range' = <<0, 0>> /\ view' = {} /\ shown' = {} /\ out' = NoOut
            /\ UNCHANGED sel
       ELSE RunOn(p, CachedRead(p), InitSession(sel, p, CachedRead(p)), kinds)
    /\ UNCHANGED <<sheet, first, source, reads>>

RunPage(p) == RunPageWith(p, SessionInputKinds(p))

RunSalesOverview == RunPage("01")
RunCustomerSupplier == RunPage("03")

\* one run of page 06 in the session: the table from the cache, a search
RunOrderLookup ==
    /\ page' = "06"
    /\ df' = CachedRead("06")
    /\ IF IsEmpty(CachedRead("06"))
       THEN /\ pc' = "stopped" /\ shown' = {} /\ out' = NoOut
            /\ cache' = Put(cache, "06", CachedRead("06"))
       ELSE \E q \in {<<>>, <<"a">>} :
               /\ out' = [query |-> q, outcome |-> LookupOutcome(df', q)]
               /\ shown' = IF LookupOutcome(df', q) = "found" THEN MatchingOrders(df', q) ELSE {}
               /\ cache' = Put(cache, "06", KeptByCache(CachedRead("06"), shown'))
               /\ pc' = "looked up"
    /\ range' = <<0, 0>> /\ view' = {}
    /\ UNCHANGED <<sheet, first, sel, source, reads>>

\* one run of page 04 in the session, the selectors left at "All Products"
\* and "All Categories": the table from the cache, the button pressed or not
RunSalesForecast ==
    /\ page' = "04"
    /\ df' = CachedRead("04")
    /\ IF IsEmpty(CachedRead("04"))
       THEN /\ pc' = "stopped" /\ shown' = {} /\ out' = NoOut
            /\ cache' = Put(cache, "04", CachedRead("04"))
       ELSE \E pressed \in BOOLEAN :
               /\ shown' = ForecastRows(df', [product |-> AllProducts, category |-> AllCategories])
               /\ out' = ForecastOutcome(pressed, SeriesLength(df', shown'), FALSE)
               /\ cache' = Put(cache, "04", KeptByCache(CachedRead("04"), shown'))
               /\ pc' = "done"
    /\ range' = <<0, 0>> /\ view' = {}
    /\ UNCHANGED <<sheet, first, sel, source, reads>>

\* the Refresh Data button of the sidebar of app.py: a run of the home page,
\* which shows no table
RefreshFromSidebar ==
    /\ cache' = NoCache
    /\ page' = "app"
    /\ pc' = "refreshed"
    /\ df' = EmptyFrame
    /\ range' = <<0, 0>> /\ view' = {} /\ shown' = {} /\ out' = NoOut
    /\ UNCHANGED <<sheet, first, sel, source, reads>>

\* somebody adds the third order to the sheet, deletes every order, or puts
\* the orders back
EditOrders ==
    /\ \E s \in SessionSheets \ {sheet, SessionSheet(2)} : sheet' = s
    /\ UNCHANGED <<df, first, pc, page, range, view, sel, shown, out, source, cache, reads>>

NextSession ==
    \/ RunSalesOverview
    \/ RunCustomerSupplier
    \/ RunOrderLookup
    \/ RunSalesForecast
    \/ RefreshFromSidebar
    \/ EditOrders

SpecSession == InitSessionModel /\ [][NextSession]_vars

\* the session of a user who changes no filter: visits of pages 01 and 03,
\* the Refresh Data buttons of the pages and of the sidebar, edits of the sheet
NextReload ==
    \/ \E p \in SessionPages : RunPageWith(p, {"none", "refresh"})
    \/ RefreshFromSidebar
    \/ EditOrders

SpecReload == InitSessionModel /\ [][NextReload]_vars

----------------------------------------------------------------------------
(* Claims on normalisation *)

RECURSIVE IsThousandsGroups(_)
IsThousandsGroups(t) ==
    \/ t = <<>>
    \/ /\ Len(t) >= 4
       /\ t[1] = ","
       /\ AllDigits(SubSeq(t, 2, 4))
       /\ IsThousandsGroups(SubSeq(t, 5, Len(t)))

\* the rupee symbol, optional spaces, digits grouped with thousands commas
IsCurrencyForm(s) ==
    /\ s # <<>>
    /\ s[1] = RUPEE
    /\ LET t == LStrip(Tail(s))
       IN  \E k \in 1..3 :
              /\ k <= Len(t)
              /\ AllDigits(SubSeq(t, 1, k))
              /\ IsThousandsGroups(SubSeq(t, k + 1, Len(t)))

IsMalformed(s) == s = <<>> \/ \E i \in 1..Len(s) : s[i] = "a"

\* C1: after clean_data every cell of a currency column of the form
\* "<rupee symbol> D,DDD" holds the number left when the symbol, the spaces and
\* the commas are removed, and every malformed cell ("a...", "") holds NaN.
C1_CurrencyParsed ==
    (pc = "clean1" /\ "Final Sale" \in DOMAIN sheet) =>
        \A i \in 1..Len(sheet["Final Sale"]) :
            LET s == sheet["Final Sale"][i].s
            IN  /\ IsCurrencyForm(s) =>
                      df["Final Sale"][i] = Num(ParseDigits(RemoveChars(s, {RUPEE, ",", " "})), 0)
                /\ IsMalformed(s) => df["Final Sale"][i] = NaN

\* C8: clean_data applied to its own result gives the same table, cell by cell.
C8_CleanIdempotent == pc = "clean2" => df = first

\* a number with a fractional part went through the second pass
C8_Witness ==
    /\ pc = "clean2"
    /\ \E c \in DOMAIN first : \E i \in 1..Len(first[c]) :
          IsNum(first[c][i]) /\ first[c][i].e > 0

----------------------------------------------------------------------------
(* Claims on the stock alert flag *)

HasCols(t, cols) == cols \subseteq DOMAIN t
Flag(i) == df["Stock Alert Flag"][i]
SL(i) == sheet["Stock Left"][i]
RL(i) == sheet["Reorder Level"][i]
MX(i) == sheet["Max Stock Level"][i]

\* C4: with the Stock Left and Reorder Level columns and no Max Stock Level
\* column, a row with a present Stock Left is flagged Reorder if
\* Stock Left <= Reorder Level and Sufficient otherwise.
C4_SecondTier ==
    (/\ pc = "flagged"
     /\ HasCols(sheet, {"Stock Left", "Reorder Level"})
     /\ "Max Stock Level" \notin DOMAIN sheet) =>
        \A i \in 1..NRows(sheet) :
            IsNum(SL(i)) =>
                Flag(i) = IF NumLE(SL(i), RL(i)) THEN FlagReorder ELSE FlagSufficient

\* C5: whichever of the three columns exist, a row whose Stock Left is missing
\* ends with the marker 'N/A (Missing Stock Data)'.
C5_MissingStockMarker ==
    (pc = "flagged" /\ "Stock Left" \in DOMAIN sheet) =>
        \A i \in 1..NRows(sheet) : ~IsNum(SL(i)) => Flag(i) = FlagMissingStock

\* C6 as stated: with the three columns, a row with a present Stock Left is
\* Reorder if SL <= RL, Optimal if RL < SL <= Max, Surplus if SL > Max and
\* Unknown when none of the three comparisons holds.
C6_FirstTierAsStated ==
    (pc = "flagged" /\ HasCols(sheet, {"Stock Left", "Reorder Level", "Max Stock Level"})) =>
        \A i \in 1..NRows(sheet) :
            IsNum(SL(i)) =>
                /\ NumLE(SL(i), RL(i)) => Flag(i) = FlagReorder
                /\ (NumGT(SL(i), RL(i)) /\ NumLE(SL(i), MX(i))) => Flag(i) = FlagOptimal
                /\ NumGT(SL(i), MX(i)) => Flag(i) = FlagSurplus
                /\ (/\ ~NumLE(SL(i), RL(i))
                    /\ ~(NumGT(SL(i), RL(i)) /\ NumLE(SL(i), MX(i)))
                    /\ ~NumGT(SL(i), MX(i))) => Flag(i) = FlagUnknown

\* C6 amended: the same, with Surplus only for a row that is not already
\* Reorder (SL > Max and not SL <= RL): the first comparison that holds, in
\* the order Reorder, Optimal, Surplus, decides the flag.
C6_FirstTier ==
    (pc = "flagged" /\ HasCols(sheet, {"Stock Left", "Reorder Level", "Max Stock Level"})) =>
        \A i \in 1..NRows(sheet) :
            IsNum(SL(i)) =>
                /\ Flag(i) \in {FlagReorder, FlagOptimal, FlagSurplus, FlagUnknown}
                /\ NumLE(SL(i), RL(i)) => Flag(i) = FlagReorder
                /\ (NumGT(SL(i), RL(i)) /\ NumLE(SL(i), MX(i))) => Flag(i) = FlagOptimal
                /\ (NumGT(SL(i), MX(i)) /\ ~NumLE(SL(i), RL(i))) => Flag(i) = FlagSurplus
                /\ (/\ ~NumLE(SL(i), RL(i))
                    /\ ~(NumGT(SL(i), RL(i)) /\ NumLE(SL(i), MX(i)))
                    /\ ~NumGT(SL(i), MX(i))) => Flag(i) = FlagUnknown

\* a row on the Reorder boundary whose stock also exceeds the maximum, next to
\* a row that is Unknown because its maximum is missing
C6_Witness ==
    /\ pc = "flagged"
    /\ HasCols(sheet, {"Stock Left", "Reorder Level", "Max Stock Level"})
    /\ \E i, j \in 1..NRows(sheet) :
          /\ IsNum(SL(i)) /\ SL(i) = RL(i) /\ NumGT(SL(i), MX(i)) /\ Flag(i) = FlagReorder
          /\ IsNum(SL(j)) /\ NumGT(SL(j), RL(j)) /\ ~IsNum(MX(j)) /\ Flag(j) = FlagUnknown

----------------------------------------------------------------------------
(* Claims on the page loaders and the date-range filter *)

Loaded == pc \in {"loaded", "filtered"}

\* C2: the table a page's loader returns has no row whose Date is missing
\* (raw rows whose date does not parse are dropped).
C2_NoMissingDate ==
    (Loaded /\ "Date" \in DOMAIN df) =>
        \A i \in 1..NRows(df) : df["Date"][i].t = "date"

\* C3: after a page's loader no value of a categorical column is null, "",
\* "nan", "None" or "NaN".
C3_CategoricalsNormalised ==
    Loaded =>
        \A c \in CategoricalCols \cap DOMAIN df : \A i \in 1..NRows(df) :
            IsStr(df[c][i]) /\ df[c][i].s \notin NullTokens4

\* C9: a raw date "DD/MM/YYYY" with both fields <= 12 is day DD of month MM
\* in the Date column of the table the page's loader returns.
C9_DayFirst ==
    (Loaded /\ "Date" \in DOMAIN sheet /\ IndexCol \in DOMAIN df) =>
        \A i \in 1..NRows(sheet) :
            LET f == DateFields(sheet["Date"][i].s)
            IN  (f # <<>> /\ f[1] <= 12 /\ f[2] <= 12) =>
                    \A j \in 1..NRows(df) :
                        df[IndexCol][j] = Num(i - 1, 0) =>
                            df["Date"][j] = DateTime(f[1], f[2], f[3], f[4])

Zero(c) == IF IsNum(c) THEN c.m ELSE 0
Term(t, name, i) == IF name \in DOMAIN t THEN Zero(t[name][i]) ELSE 0

C10_DateRangeInclusive ==
    (pc = "filtered" /\ "Date" \in DOMAIN df) =>
        \A i \in 1..NRows(df) :
            (df["Date"][i].t = "date" /\ df["Date"][i].m \in {range[1], range[2]}) =>
                i \in view

----------------------------------------------------------------------------
(* Claims on the filters of the pages *)

\* the selection s leaves the dimension unfiltered, or holds the value c
InSelection(s, c) == s = {} \/ ALL \in s \/ c \in s

\* C11: on the pages with multi-select filters (01 and 02), a record the date
\* range keeps is shown exactly when, for every multi-select whose column the
\* table has, its value is in the selected set, or the selected set is empty,
\* or the selected set contains "All" (alone or with other values).
C11_MultiSelect ==
    (pc = "filtered" /\ page \in {"01", "02"}) =>
        \A i \in view :
            i \in shown <=>
                \A col \in FilterCols(page) \cap DOMAIN df :
                    InSelection(sel[col], df[col][i])

\* the column of the table a filter of the session works on
TargetCol(col) == IF col = ClickedCustomer THEN "Customer Name" ELSE col

\* the selection s with every filter whose column t lacks put back to the
\* value of an untouched filter
WithoutAbsent(p, t, s) ==
    [col \in DOMAIN s |->
        IF TargetCol(col) \in DOMAIN t THEN s[col] ELSE DefaultChoice(p, col)]

\* C12: a filter that targets a column the table lacks is a no-op: the filter
\* step completes, without a Date column the date range keeps every row, and
\* the rows shown are the rows that would be shown with the filters on absent
\* columns left untouched.
C12_AbsentColumnNoOp ==
    pc = "filtered" =>
        /\ "Date" \notin DOMAIN df => view = 1..NRows(df)
        /\ shown = {i \in view : Pass(page, df, WithoutAbsent(page, df, sel), i)}

\* pages 01 and 03 ran their filters on a table without Date and Customer Name
\* while the session held a customer selection, and every row is shown
C12_Witness ==
    /\ pc = "filtered"
    /\ {"Date", "Customer Name"} \cap DOMAIN df = {}
    /\ \/ page = "01" /\ sel["Customer Name"] # {}
       \/ page = "03" /\ sel[ClickedCustomer] # None
    /\ shown = 1..NRows(df)
    /\ shown # {}

----------------------------------------------------------------------------
(* Claims on the loaders' failure policy *)

\* C13: when the source has no Date column at all, the loader of each page
\* returns an empty table.
C13_MissingColumnEmpty ==
    (pc = "loaded" /\ "Date" \notin DOMAIN sheet) => IsEmpty(df)

----------------------------------------------------------------------------
(* Claims on the indicators of page 01 *)

\* the number of distinct invoices among the rows shown, 0 without the column
DistinctInvoices ==
    IF InvoiceCol \in DOMAIN df
    THEN Cardinality({df[InvoiceCol][i] : i \in shown}) ELSE 0

\* C14: the average order value page 01 displays is total revenue divided by
\* the number of distinct invoices whenever both are defined and not 0, and 0
\* when either is 0 or undefined.
C14_AverageOrderValue ==
    (pc = "rendered" /\ page = "01") =>
        out.aov = IF DistinctInvoices # 0 /\ TotalRevenue(df, shown) # Num(0, 0)
                  THEN Ratio(TotalRevenue(df, shown), DistinctInvoices)
                  ELSE Num(0, 0)

----------------------------------------------------------------------------
(* Claims on the invoice lookup *)

\* the rows of the loaded table whose Invoice ID is the string q once both
\* are trimmed and put in lower case
SameInvoice(q) ==
    IF InvoiceCol \in DOMAIN df
    THEN {i \in 1..NRows(df) : LowerStr(Strip(df[InvoiceCol][i].s)) = LowerStr(Strip(q))}
    ELSE {}

\* C15 as stated: for every search string, the lookup shows exactly the rows
\* whose Invoice ID equals it after trimming and lower-casing both sides, and
\* a search with no such row ends in the outcome 'no order found'.
C15_LookupAsStated ==
    pc = "looked up" =>
        /\ shown = SameInvoice(out.query)
        /\ out.outcome = IF SameInvoice(out.query) = {} THEN "no order found" ELSE "found"

\* C15: for every search string that is not empty, on a table that has the
\* Invoice ID column, the lookup shows exactly the rows whose Invoice ID
\* equals the search string after trimming and lower-casing both sides, and a
\* search with no such row ends in 'no order found'; the empty search string
\* ends in the prompt to enter an Invoice ID and shows no row.
C15_Lookup ==
    pc = "looked up" =>
        /\ (out.query # <<>> /\ InvoiceCol \in DOMAIN df) =>
              /\ shown = SameInvoice(out.query)
              /\ out.outcome =
                    IF SameInvoice(out.query) = {} THEN "no order found" ELSE "found"
        /\ out.query = <<>> => (out.outcome = "enter an invoice id" /\ shown = {})

\* " a" was searched and found the order stored as "A ", another order was not
C15_Witness ==
    /\ pc = "looked up"
    /\ out.query = <<" ", "a">>
    /\ out.outcome = "found"
    /\ \E i \in shown : df[InvoiceCol][i].s = <<"A", " ">>
    /\ shown # 1..NRows(df)

----------------------------------------------------------------------------
(* Claims on the cache *)

\* C16: a read of a page's table that is the first of that page since the
\* last refresh trigger (or since the start) calls the data source and
\* returns the table normalised from what the sheet holds now; a read of a
\* page already read since the last refresh trigger returns the table of that
\* earlier read without calling the data source.
C16_CacheInvalidation ==
    [][pc' = "read" =>
          IF page' \in DOMAIN reads
          THEN ~out'.fetched /\ df' = reads[page']
          ELSE out'.fetched /\ df' = Loader(page', sheet)]_vars

\* a page was read again without a refresh after the sheet was edited: it got
\* the earlier table, while another page was read for the first time since
\* the refresh and got the table of the edited sheet
C16_Witness ==
    /\ pc = "read"
    /\ ~out.fetched
    /\ df # Loader(page, sheet)
    /\ \E p \in DOMAIN reads : reads[p] = Loader(p, sheet)

----------------------------------------------------------------------------
(* Claims on the forecast page *)

\* the calendar days of the rows the forecast is asked for
ForecastDays == {df["Date"][i].m : i \in ForecastRows(df, sel)}

\* C17: Prophet is called exactly when the user pressed Generate Forecast and
\* the daily series has at least 20 distinct dates; a request on a shorter
\* series ends in the insufficient-data message, a request on which Prophet
\* raises ends in the forecasting-error message, which is another message,
\* and in both cases the run of the page completes.
C17_ForecastGating ==
    (page = "04" /\ pc \notin {"raw", "loaded"}) =>
        /\ pc = "done"
        /\ out.invoked <=> (out.requested /\ Cardinality(ForecastDays) >= 20)
        /\ (out.requested /\ Cardinality(ForecastDays) < 20)
              => out.message = "insufficient data"
        /\ out.message = "forecasting error" => out.invoked

\* requests on a series of exactly 20 days, for which Prophet raised, and
\* of 19 days are both reachable; here the first
C17_Witness ==
    /\ pc = "done"
    /\ out.requested
    /\ Cardinality(ForecastDays) = 20
    /\ NRows(df) > 20
    /\ out.message = "forecasting error"

----------------------------------------------------------------------------
(* Claims on the monthly charts *)

\* the months in which the rows shown fall
MonthsShown ==
    IF "Date" \in DOMAIN df
    THEN {df["Date"][i].m \div 100 : i \in {j \in shown : df["Date"][j].t = "date"}}
    ELSE {}

\* C18: on pages 01 and 02 a monthly trend chart is drawn only when the rows
\* shown fall in at least 2 months.
C18_MonthlyChartBuckets ==
    pc = "rendered" =>
        \A k \in {"trend", "margin", "monthly"} \cap DOMAIN out :
            out[k] = "chart" => Cardinality(MonthsShown) >= 2

----------------------------------------------------------------------------
(* Claims on format_as_inr *)

\* the amount that was formatted
Amount == df.Total_Revenue[1]

\* the nearest integer to the amount, a half going to the even neighbour
Nearest ==
    LET p == Pow10(Amount.e)
        a == IF Amount.m < 0 THEN 0 - Amount.m ELSE Amount.m
        q == a \div p
        up == 2 * (a % p) > p \/ (2 * (a % p) = p /\ q % 2 = 1)
    IN  (IF Amount.m < 0 THEN -1 ELSE 1) * (IF up THEN q + 1 ELSE q)

\* t is digits in the Indian grouping: counted from the right, the 4th, 7th,
\* 10th ... characters are commas, every other one is a digit, and the text
\* starts with a digit
IsIndianGrouping(t) ==
    /\ t # <<>>
    /\ IsDigit(t[1])
    /\ \A i \in 1..Len(t) :
          LET p == Len(t) - i + 1
          IN  IF p >= 4 /\ (p - 4) % 3 = 0 THEN t[i] = "," ELSE IsDigit(t[i])

\* the rendered text starts with the characters of p
TextStartsWith(p) ==
    Len(out.text) >= Len(p) /\ SubSeq(out.text, 1, Len(p)) = p

\* the text after the prefix of n characters is the Indian grouping of the
\* digits of the absolute value of r
IsAmountText(n, r) ==
    /\ Len(out.text) > n
    /\ IsIndianGrouping(SubSeq(out.text, n + 1, Len(out.text)))
    /\ RemoveChars(SubSeq(out.text, n + 1, Len(out.text)), {","})
          = DigitsOf(IF r < 0 THEN 0 - r ELSE r)

\* C19 as stated: every number is rendered as the currency symbol and the
\* grouped rounded integer, with a leading minus before the symbol for every
\* negative value.
C19_FormatAsStated ==
    (pc = "formatted" /\ IsNum(Amount)) =>
        IF Amount.m < 0
        THEN TextStartsWith(<<"-", " ", RUPEE, " ">>) /\ IsAmountText(4, Nearest)
        ELSE TextStartsWith(<<RUPEE, " ">>) /\ IsAmountText(2, Nearest)

\* C19: every number is rendered as the rupee sign, a space, and the digits of
\* the absolute value of the number rounded to the nearest integer (a half to
\* the even neighbour), grouped in the Indian convention, with no decimals;
\* when the rounded value is negative the text starts with a minus and a
\* space before the rupee sign; removing the commas gives back the digits.
C19_Format ==
    (pc = "formatted" /\ IsNum(Amount)) =>
        IF Nearest < 0
        THEN TextStartsWith(<<"-", " ", RUPEE, " ">>) /\ IsAmountText(4, Nearest)
        ELSE TextStartsWith(<<RUPEE, " ">>) /\ IsAmountText(2, Nearest)

\* -119019.5 was rendered "- RUPEE 1,19,020"
C19_Witness ==
    /\ pc = "formatted"
    /\ Amount = Num(-1190195, 1)
    /\ out.text = <<"-", " ", RUPEE, " ", "1", ",", "1", "9", ",", "0", "2", "0">>

----------------------------------------------------------------------------
(* Claims on an unavailable source *)

\* C20: when the fetch fails or returns no row at all, nothing raises: the
\* loader of every page returns an empty table, and the page shows its
\* 'no data' message and stops.
C20_SourceUnavailable ==
    (source # "ok" /\ pc # "raw") =>
        /\ pc \in {"loaded", "stopped"}
        /\ IsEmpty(df)
        /\ pc = "stopped" => out.message = "no data"

----------------------------------------------------------------------------
(* Claims on the derived fields of a record *)

DerivedCols == {"Stock Alert Flag", "Stock Value (Selling Price)", "Stock Value Cost"}

\* C21: derivation is row-local: two tables with the same columns that agree
\* on a record give that record the same derived values (stock values, stock
\* alert flag) whatever the other records contain.
C21_RowLocal ==
    pc = "twice" =>
        \A c \in DerivedCols \cap DOMAIN df : df[c][1] = first[c][1]

----------------------------------------------------------------------------
(* Claims on the composition of the filters *)

\* the orders in which the filters of S can be applied
Orders(S) ==
    {o \in [1..Cardinality(S) -> S] : \A i, j \in 1..Cardinality(S) : o[i] = o[j] => i = j}

\* C22: the filtered view of a page is the set of rows that satisfy all
\* active filter predicates at once (date range, categorical selections and,
\* on the customer page, the clicked customer): applying the categorical
\* filters in any order after the date range gives the same rows.
C22_FilterConjunction ==
    pc = "filtered" =>
        /\ shown = {i \in 1..NRows(df) :
                      /\ InDateRange(df["Date"][i], range[1], range[2])
                      /\ \A col \in FilterCols(page) :
                            IsActive(page, df, sel, col) => Keeps(page, df, sel, col, i)}
        /\ \A o \in Orders(FilterCols(page)) : FilterSeq(page, df, sel, o, view) = shown

\* two filters of page 01 are active, each keeps a row the other drops, and
\* the third row passes both
C22_Witness ==
    /\ pc = "filtered"
    /\ page = "01"
    /\ sel["Product"] = {Word("Widget")}
    /\ sel["Customer Name"] = {Word("Bob")}
    /\ view = {1, 2, 3}
    /\ shown = {3}

----------------------------------------------------------------------------
(* Claims on a blank search string *)

\* C30: an invoice lookup whose search string is empty or consists only of
\* whitespace never returns any record: it ends either in the 'please enter
\* an Invoice ID' warning or in the 'no order found' warning, even when the
\* table has records whose Invoice ID is blank.
C30_BlankSearch ==
    (pc = "looked up" /\ Strip(out.query) = <<>>) =>
        /\ shown = {}
        /\ out.outcome # "found"
        /\ InvoiceCol \in DOMAIN df =>
              out.outcome \in {"enter an invoice id", "no order found"}

----------------------------------------------------------------------------
(* Claims on the selectors of the forecast page *)

\* C26: the stored category of the forecast page differs from 'All
\* Categories' only if the user chose that category in the category
\* selector: with 'All Products' selected and the category selector never
\* touched, the stored category is 'All Categories' and the series is built
\* from the rows of all categories.
C26_StoredCategory ==
    pc = "run" =>
        /\ sel.category # AllCategories => out.picked = sel.category
        /\ (sel.product = AllProducts /\ out.picked = None) =>
              sel.category = AllCategories /\ shown = 1..NRows(df)

----------------------------------------------------------------------------
(* Claims on the cancellation analysis and the monthly rollups *)

\* a rate between 0 and 100 percent
IsPercentage(r) == 0 <= r.m /\ r.m <= 100 * r.e

\* C27: in the inventory page's cancellation analysis every cancellation
\* rate shown, the overall one and each monthly one, lies between 0 and 100
\* percent, also when one invoice spans several rows.
C27_CancellationRates ==
    (pc = "rendered" /\ page = "02" /\ out.cancel.section) =>
        /\ IsPercentage(out.cancel.overall)
        /\ \A ym \in DOMAIN out.cancel.monthly : IsPercentage(out.cancel.monthly[ym])

\* C28: the monthly rollups of the sales overview page and of the inventory
\* page agree on bucketing: each has exactly one bucket for every calendar
\* month that has at least one of the rows shown and no bucket for a month
\* that has none.
C28_MonthlyBuckets ==
    pc = "rendered" =>
        /\ out.months \in {{}, MonthsOf(df, shown)}
        /\ page = "02" => DOMAIN out.cancel.monthly \in {{}, MonthsOf(df, shown)}

----------------------------------------------------------------------------
(* Claims on the top 10 charts *)

\* the total of the group k of the chart drawn
TotalOf(k) == SumCol(df[out.of], {i \in shown : df[out.by][i] = k})

\* the group a comes before the group b in the ranking: a larger total, or
\* the same total and a name that sorts first
RanksBefore(a, b) ==
    \/ NumGT(TotalOf(a), TotalOf(b))
    \/ (TotalOf(a) = TotalOf(b) /\ KeyRank(a) < KeyRank(b))

\* C24: the top-N rankings are reproducible: for the same filtered set of
\* rows the same groups are selected, with ties broken by the first group in
\* one fixed order (that of the group names), whatever the order of the rows
\* in the table and whatever filters produced the rows.
C24_TopNReproducible ==
    pc = "ranked" =>
        {out.top[n] : n \in 1..Len(out.top)} =
            {k \in {df[out.by][i] : i \in shown} :
                Cardinality({x \in {df[out.by][i] : i \in shown} : RanksBefore(x, k)}) < TopCount}

\* eleven products, A and B tied for the tenth place, B's row above A's in
\* the table: A is in the top 10 and B is not
C24_Witness ==
    /\ pc = "ranked"
    /\ page = "01"
    /\ df["Product"][1] = Word("B")
    /\ TotalOf(Word("A")) = TotalOf(Word("B"))
    /\ Len(out.top) = TopCount
    /\ out.top[TopCount] = Word("A")
    /\ \A n \in 1..Len(out.top) : out.top[n] # Word("B")

----------------------------------------------------------------------------
(* Claims on the session and the cache *)

C25_RangeFollowsReload ==
    (page \in SessionPages /\ pc = "shown")
        => (range = FullRange(df) /\ shown = 1..NRows(df))

\* the click filter of a session
Clicked == ClickedIn(sel)

\* a run of page 03 in which the press of Clear All drops the click filter
ClearClicked ==
    /\ RunPageWith("03", {"clear"})
    /\ pc' = "rerun"
    /\ ClickedIn(sel') = None

\* the steps of the click filter: a click on a bar toggles it, the two
\* buttons of the page clear it, nothing else changes it
ClickSteps ==
    IF page' = "03" /\ sheet' = sheet /\ pc' = "rerun"
    THEN IF out'.input = "click"
         THEN ClickedIn(sel') = (IF Clicked = out'.bar THEN None ELSE out'.bar)
         ELSE ClickedIn(sel') = None
    ELSE ClickedIn(sel') = Clicked

\* the cache holds a table with rows for page 03
HasTable == "03" \in DOMAIN cache /\ ~IsEmpty(cache["03"])

\* C29 (amended): the click filter of page 03 is a toggle: a click on the
\* bar of a customer who is not the click filter makes it the click filter,
\* a click on the bar of the click filter clears it, Clear All and the
\* page's Refresh Data clear it, no other operation changes it, and in
\* every reachable state in which the page has a table with rows the user
\* can clear it with Clear All.
C29_ClickToggle ==
    /\ [][ClickSteps]_vars
    /\ []((Clicked # None /\ HasTable) => ENABLED ClearClicked)

\* a click on the bar of the active customer has cleared the click filter
C29_Witness ==
    /\ page = "03"
    /\ pc = "rerun"
    /\ out.input = "click"
    /\ out.bar = Word("A")
    /\ Clicked = None

\* C29 as stated: the same, and from every reachable state the user can
\* reach the state with no click filter: by Clear All on the table the page
\* has, or by Clear All on the table the page reads after a refresh from
\* the sidebar when the sheet has orders.
C29_ClickToggleAsStated ==
    /\ [][ClickSteps]_vars
    /\ [](Clicked # None =>
            \/ (HasTable /\ ENABLED ClearClicked)
            \/ ~IsEmpty(Loader("03", sheet)))
====
